---- MODULE Spec2Model ----
(***************************************************************************)
(* Javari AuditOps: the crawl and issue lifecycle engine.                  *)
(*                                                                         *)
(*   Spec       crawlDomain (crawler.ts): one domain's crawl loop          *)
(*   SpecClock  the same crawl with the wall clock advancing               *)
(*   SpecRun    runAudit and saveIssues against the store                  *)
(*   SpecVerify verifyFixes against a store of earlier runs' issues        *)
(*   SpecGoNoGo determineGoNoGo as a pure function of the counts           *)
(*   SpecLive   the crawl loop under weak fairness                         *)
(*   SpecVerifyShared  verifyFixes with other writers of the store         *)
(*   SpecDomains       getDomains and the budget overrides                 *)
(*   SpecAudit  the crawl followed by the other modules of auditDomain     *)
(*   SpecLighthouse, SpecFingerprint, SpecPacket                           *)
(*              runLighthouse, the fingerprints, generateFixPacket         *)
(***************************************************************************)
EXTENDS Integers, Sequences, FiniteSets, TLC

\* ------------------------------------------------------------------ bounds
MaxBudgetPages == 3
BudgetDepth == 1
RuntimeMinutes == 1
MaxClock == 2
MaxLinks == 2
MaxErrorLinks == 1
MaxRuns == 2
MaxBlocker == 2
MaxHigh == 12
MaxMedium == 2
MaxLow == 2

\* cli.ts:188: requests_per_second of the configured domains
RequestsPerSecond == 2

\* cli.ts:185-186: the budgets of the built-in default domains
DefaultBudgetPages == 1200
DefaultBudgetDepth == 8

\* ------------------------------------------------------------ crawl state
VARIABLES
  domain,         \* the DomainConfig handed to crawlDomain
  queue,          \* crawler.ts:18   frontier, a FIFO of href strings
  visited,        \* crawler.ts:17   Set<string> of href strings
  pagesCrawled,   \* crawler.ts:34
  brokenLinks,    \* crawler.ts:36   Map keys, in insertion order
  consoleErrors,  \* crawler.ts:37   Map entries [url, errors], in insertion order
  issues,         \* crawler.ts:16   AuditIssue[] returned by crawlDomain
  cpc,            \* where crawlDomain is: "launch", "loop", "fetching",
                  \* "done" (returned), "threw"
  cur,            \* the url of the page being fetched (crawler.ts:41)
  now,            \* wall clock, minutes since crawlDomain was called
  fetchLog,       \* history: one entry per crawlPage call, in call order
  browser,        \* crawler.ts:10   the module's Browser: "null" or "open"
  context,        \* crawler.ts:29   the BrowserContext: "none", "open", "closed"
  page            \* crawler.ts:138  the Page of crawlPage: "none", "open", "closed"

resVars == <<browser, context, page>>

crawlVars == <<domain, queue, visited, pagesCrawled, brokenLinks, consoleErrors,
               issues, cpc, cur, now, fetchLog, resVars>>

\* -------------------------------------------------------------- run state
VARIABLES
  audit_runs,     \* table audit_runs: run_id -> the stored run record
  audit_issues,   \* table audit_issues: the rows, row i has id i
  run,            \* run.ts:31     the in-memory AuditRun of the runAudit call
  allIssues,      \* run.ts:59
  results,        \* run.ts:60     Map domain -> status
  todo,           \* run.ts:63     the domains the loop has not reached yet
  rpc,            \* where runAudit is: "idle", "created", "domains", "saveIssues"
  saved,          \* how the call's saveIssues ended: "pending", "skipped", "ok", "error"
  nextRun,        \* the number of the next run
  thrown          \* history: the auditDomain calls of this run that threw, each
                  \* with the module that threw and the issues collected so far

runVars == <<audit_runs, audit_issues, run, allIssues, results, todo, rpc,
             saved, nextRun,
             thrown>>

\* ------------------------------------------------ determineGoNoGo, applied
VARIABLES
  counts,         \* the summary handed to determineGoNoGo
  verdict,        \* what it returned, "none" before the call
  dbVerdict       \* what determine_go_no_go of the database returned for them

gngVars == <<counts, verdict, dbVerdict>>

\* ----------------------------------------------------------- verify state
VARIABLES
  audit_domains,  \* table audit_domains: the ids that have a row
  vopts,          \* verify.ts:18   the VerifyOptions, issueId 0 when not given
  vpc,            \* where verifyFixes is: "idle", "domains", "issues", "done"
  vGroups,        \* verify.ts:52   issuesByDomain, the entries not yet reached
  vIssues,        \* verify.ts:103  the current domain's issues not yet reached
  vNew,           \* verify.ts:80   newIssues of the current domain
  verified,       \* verify.ts:59
  stillPresent,   \* verify.ts:60
  vLog            \* history: the issues the loop of verify.ts:103 has handled

verifyVars == <<audit_domains, vopts, vpc, vGroups, vIssues, vNew, verified,
                stillPresent, vLog>>

\* the variables of runAudit that verifyFixes leaves alone
runRest == <<audit_runs, run, allIssues, results, todo, rpc, saved, nextRun,
            thrown>>

\* the Lighthouse result and the issues runLighthouse makes of it
VARIABLES lhr, lhIssues
\* two findings and their fingerprints
VARIABLES findings, fps
\* generateFixPacket: its options and the rows of audit_fix_packets
VARIABLES pkOptions, audit_fix_packets
\* auditDomain after the crawl: the root page, the urls each module was run
\* on, and the result of a run over this one domain
VARIABLES site, invoked, audit
\* where these commands are: "idle", "ready" (inputs given) or "done"
VARIABLES apc

\* getDomains: the AuditOptions, the rows of table audit_domains and the
\* DomainConfigs it returned
VARIABLES auditOptions, domainRows, selectedDomains

cfgVars == <<auditOptions, domainRows, selectedDomains>>

auxVars == <<lhr, lhIssues, findings, fps, pkOptions, audit_fix_packets,
             site, invoked, audit, apc, cfgVars>>

\* getDomains has not been called
CfgIdle ==
  /\ auditOptions = <<>>
  /\ domainRows = <<>>
  /\ selectedDomains = <<>>

vars == <<crawlVars, runVars, verifyVars, gngVars, auxVars>>

\* ------------------------------------------------------------------- URLs
\* An href is the string the code handles, kept as its sequence of parts:
\* "https://", the host's labels, the path, "?" and the parameters, the
\* fragment.  String operations of the code (startsWith, ===) act on it.
StartsWith(s, p) == Len(p) <= Len(s) /\ SubSeq(s, 1, Len(p)) = p

Href(u) ==
  <<"https://">> \o u.host
    \o (IF u.path = "" THEN <<>> ELSE <<u.path>>)
    \o (IF u.query = <<>> THEN <<>> ELSE <<"?">> \o u.query)
    \o (IF u.frag = "" THEN <<>> ELSE <<u.frag>>)

Url(h, p, q, f) == [host |-> h, path |-> p, query |-> q, frag |-> f]

SiteHost == <<"a.com">>
LookalikeHost == <<"a.com", ".evil.org">>

\* The anchors a page of the site may carry, as new URL(href, base).href
\* returns them (crawler.ts:171): a path is never empty there.
LinkOrder ==
  << Url(SiteHost, "/p", <<"a=1", "b=2">>, ""),
     Url(SiteHost, "/p", <<"b=2", "a=1">>, ""),
     Url(SiteHost, "/q", <<>>, "#top"),
     Url(LookalikeHost, "/", <<>>, "") >>

LinkUrls == { LinkOrder[i] : i \in 1..Len(LinkOrder) }

LinkHrefs == { Href(u) : u \in LinkUrls }

\* crawler.ts:18-19: the seed and the base are `https://${domain.domain}`
BaseUrl(d) == <<"https://">> \o d.domain

RootUrl(d) == Url(d.domain, "", <<>>, "")

AllUrls == LinkUrls \cup { Url(SiteHost, "", <<>>, "") }

UrlOf(h) == CHOOSE u \in AllUrls : Href(u) = h

\* crawler.ts:191: links: [...new Set(links)], duplicate-free, document order
RECURSIVE Pick(_, _)
Pick(S, order) ==
  IF order = <<>> THEN <<>>
  ELSE (IF Head(order) \in S THEN <<Href(Head(order))>> ELSE <<>>)
       \o Pick(S, Tail(order))

\* the anchors of one page: at most MaxLinks of LinkUrls, in the order of LinkOrder
LinkLists ==
  { Pick(S, LinkOrder) : S \in { T \in SUBSET LinkUrls : Cardinality(T) <= MaxLinks } }

\* what page.goto can answer with when it does not throw (crawler.ts:160)
Statuses == {200, 404}

\* the anchors of a page that answered with an error status: at most
\* MaxErrorLinks of them (an error page is a short page)
ErrorLinkLists == { l \in LinkLists : Len(l) <= MaxErrorLinks }

\* crawler.ts:160-177: the links crawlPage extracts from a page of that status
ResponseLinks(status) == IF status >= 400 THEN ErrorLinkLists ELSE LinkLists

\* console output of the site's pages (crawler.ts:142-150): the pages under /p
\* log an uncaught error, the lookalike host's page logs a warning
PageConsole(h) ==
  IF UrlOf(h).path = "/p" THEN <<"Uncaught TypeError: x is undefined">>
  ELSE IF UrlOf(h).host = LookalikeHost THEN <<"Deprecated API">>
  ELSE <<>>

DomainConfigs ==
  [ id : {"d1"},
    domain : {SiteHost},
    crawl_budget_pages : 1..MaxBudgetPages,
    crawl_budget_depth : {BudgetDepth},
    max_runtime_minutes : {RuntimeMinutes},
    requests_per_second : {RequestsPerSecond} ]

\* ------------------------------------------------------------ createIssue
\* crawler.ts:215-219: sha256 of `${domainId}:${category}:${title}:${route}`;
\* the hash is kept as its input.
Fingerprint(domainId, category, title, route) ==
  <<domainId, category, title, route>>

createIssue(domainId, category, severity, title, route, autoFixable) ==
  [ domain_id |-> domainId,
    category |-> category,
    severity |-> severity,
    title |-> title,
    route_or_endpoint |-> route,
    auto_fixable |-> autoFixable,
    fingerprint |-> Fingerprint(domainId, category, title, route),
    status |-> "open",
    occurrence_count |-> 1 ]

\* crawler.ts:104-108
IsCritical(e) == e \in {"Uncaught TypeError: x is undefined"}

\* -------------------------------------------------------------- crawlDomain
CrawlInit ==
  /\ domain \in DomainConfigs
  /\ queue = << BaseUrl(domain) >>
  /\ visited = {}
  /\ pagesCrawled = 0
  /\ brokenLinks = <<>>
  /\ consoleErrors = <<>>
  /\ issues = <<>>
  /\ cpc = "launch"
  /\ cur = <<>>
  /\ now = 0
  /\ fetchLog = <<>>
  /\ browser = "null"
  /\ context = "none"
  /\ page = "none"

\* crawler.ts:21-38: the browser is launched when the module holds none, and
\* a context is opened in it
Launch ==
  /\ cpc = "launch"
  /\ browser' = "open"
  /\ context' = "open"
  /\ cpc' = "loop"
  /\ UNCHANGED <<domain, queue, visited, pagesCrawled, brokenLinks,
                 consoleErrors, issues, cur, now, fetchLog, page>>
  /\ UNCHANGED <<runVars, verifyVars, gngVars, auxVars>>

\* crawler.ts:21-32: chromium.launch or browser.newContext threw, before the
\* try of crawler.ts:39; crawlDomain throws
LaunchThrow ==
  /\ cpc = "launch"
  /\ browser' \in {"null", "open"}
  /\ cpc' = "threw"
  /\ UNCHANGED <<domain, queue, visited, pagesCrawled, brokenLinks,
                 consoleErrors, issues, cur, now, fetchLog, context, page>>
  /\ UNCHANGED <<runVars, verifyVars, gngVars, auxVars>>

\* crawler.ts:40: the loop condition
LoopCond == Len(queue) > 0 /\ pagesCrawled < domain.crawl_budget_pages

\* a loop that leaves a visited url at the head of the frontier
SkipVisitedKeepsUrl ==
  /\ cpc = "loop"
  /\ LoopCond
  /\ Head(queue) \in visited
  /\ queue' = queue
  /\ UNCHANGED <<domain, visited, pagesCrawled, brokenLinks, consoleErrors,
                 issues, cpc, cur, now, fetchLog>>
  /\ UNCHANGED resVars
  /\ UNCHANGED <<runVars, verifyVars, gngVars, auxVars>>

\* crawler.ts:41-43: an already visited url is dropped
SkipVisited ==
  /\ cpc = "loop"
  /\ LoopCond
  /\ Head(queue) \in visited
  /\ queue' = Tail(queue)
  /\ UNCHANGED <<domain, visited, pagesCrawled, brokenLinks, consoleErrors,
                 issues, cpc, cur, now, fetchLog>>
  /\ UNCHANGED resVars
  /\ UNCHANGED <<runVars, verifyVars, gngVars, auxVars>>

\* crawler.ts:41-47: the url is marked visited and crawlPage is called
StartFetch ==
  /\ cpc = "loop"
  /\ LoopCond
  /\ Head(queue) \notin visited
  /\ queue' = Tail(queue)
  /\ visited' = visited \cup {Head(queue)}
  /\ cur' = Head(queue)
  /\ cpc' = "fetching"
  /\ fetchLog' = Append(fetchLog,
       [url |-> Head(queue), at |-> now, outcome |-> "pending", links |-> <<>>,
        pause |-> 0])
  /\ UNCHANGED <<domain, pagesCrawled, brokenLinks, consoleErrors, issues, now>>
  /\ page' = "open"
  /\ UNCHANGED <<browser, context>>
  /\ UNCHANGED <<runVars, verifyVars, gngVars, auxVars>>

\* crawler.ts:61-66: the links admitted to the queue, in order
RECURSIVE Admitted(_, _, _)
Admitted(links, seen, base) ==
  IF links = <<>> THEN <<>>
  ELSE IF Head(links) \notin seen /\ StartsWith(Head(links), base)
       THEN <<Head(links)>> \o Admitted(Tail(links), seen, base)
       ELSE Admitted(Tail(links), seen, base)

\* crawler.ts:69: sleep(1000 / domain.requests_per_second), in milliseconds
PacingDelay(d) == 1000 \div d.requests_per_second

\* the entry of the crawlPage call that ended: its outcome, its links and the
\* time the iteration slept before the loop went on
SetLast(log, outcome, links, pause) ==
  [log EXCEPT ![Len(log)] =
     [@ EXCEPT !.outcome = outcome, !.links = links, !.pause = pause]]

\* a crawl that puts the links of a page at the front of the frontier
FetchReturnDepthFirst ==
  /\ cpc = "fetching"
  /\ \E status \in Statuses : \E links \in ResponseLinks(status) :
       LET errs == PageConsole(cur) IN
       /\ pagesCrawled' = pagesCrawled + 1
       /\ brokenLinks' = IF status >= 400 THEN Append(brokenLinks, cur)
                         ELSE brokenLinks
       /\ consoleErrors' = IF Len(errs) > 0
                           THEN Append(consoleErrors, [url |-> cur, errors |-> errs])
                           ELSE consoleErrors
       /\ queue' = Admitted(links, visited, BaseUrl(domain)) \o queue
       /\ fetchLog' = SetLast(fetchLog, IF status >= 400 THEN "status" ELSE "ok",
                               links, PacingDelay(domain))
  /\ cpc' = "loop"
  /\ UNCHANGED <<domain, visited, issues, cur, now>>
  /\ page' = "closed"
  /\ UNCHANGED <<browser, context>>
  /\ UNCHANGED <<runVars, verifyVars, gngVars, auxVars>>

\* crawler.ts:47-69: crawlPage returned a CrawlResult; the iteration ends with
\* the pacing sleep of crawler.ts:69
FetchReturn ==
  /\ cpc = "fetching"
  /\ \E status \in Statuses : \E links \in ResponseLinks(status) :
       LET errs == PageConsole(cur) IN
       /\ pagesCrawled' = pagesCrawled + 1
       /\ brokenLinks' = IF status >= 400 THEN Append(brokenLinks, cur)
                         ELSE brokenLinks
       /\ consoleErrors' = IF Len(errs) > 0
                           THEN Append(consoleErrors, [url |-> cur, errors |-> errs])
                           ELSE consoleErrors
       /\ queue' = queue \o Admitted(links, visited, BaseUrl(domain))
       /\ fetchLog' = SetLast(fetchLog, IF status >= 400 THEN "status" ELSE "ok",
                               links, PacingDelay(domain))
  /\ cpc' = "loop"
  /\ UNCHANGED <<domain, visited, issues, cur, now>>
  /\ page' = "closed"
  /\ UNCHANGED <<browser, context>>
  /\ UNCHANGED <<runVars, verifyVars, gngVars, auxVars>>

\* a crawl whose page failure ends it: the error leaves the loop
FetchThrowAborts ==
  /\ cpc = "fetching"
  /\ fetchLog' = SetLast(fetchLog, "threw", <<>>, 0)
  /\ cpc' = "done"
  /\ UNCHANGED <<domain, queue, visited, pagesCrawled, brokenLinks,
                 consoleErrors, issues, cur, now>>
  /\ page' = "closed"
  /\ context' = "closed"
  /\ UNCHANGED browser
  /\ UNCHANGED <<runVars, verifyVars, gngVars, auxVars>>

\* crawler.ts:71-83: crawlPage threw (timeout, navigation error)
FetchThrow ==
  /\ cpc = "fetching"
  /\ issues' = Append(issues,
       createIssue(domain.id, "LINKS", "HIGH", <<"Page failed to load: ", cur>>,
                   cur, FALSE))
  /\ fetchLog' = SetLast(fetchLog, "threw", <<>>, 0)
  /\ cpc' = "loop"
  /\ UNCHANGED <<domain, queue, visited, pagesCrawled, brokenLinks,
                 consoleErrors, cur, now>>
  /\ page' = "closed"
  /\ UNCHANGED <<browser, context>>
  /\ UNCHANGED <<runVars, verifyVars, gngVars, auxVars>>

\* crawler.ts:86-100
RECURSIVE BrokenLinkIssues(_, _)
BrokenLinkIssues(d, urls) ==
  IF urls = <<>> THEN <<>>
  ELSE <<createIssue(d.id, "LINKS", "HIGH", <<"Broken link detected">>,
                     Head(urls), TRUE)>>
       \o BrokenLinkIssues(d, Tail(urls))

\* crawler.ts:102-124
RECURSIVE ConsoleIssues(_, _)
ConsoleIssues(d, entries) ==
  IF entries = <<>> THEN <<>>
  ELSE (IF \E i \in 1..Len(Head(entries).errors) : IsCritical(Head(entries).errors[i])
        THEN <<createIssue(d.id, "UX", "HIGH", <<"JavaScript errors on page">>,
                           Head(entries).url, FALSE)>>
        ELSE <<>>)
       \o ConsoleIssues(d, Tail(entries))

\* crawler.ts:40, 86-130: the loop ended; the issues are assembled and returned
Finish ==
  /\ cpc = "loop"
  /\ ~LoopCond
  /\ issues' = issues \o BrokenLinkIssues(domain, brokenLinks)
                      \o ConsoleIssues(domain, consoleErrors)
  /\ cpc' = "done"
  /\ UNCHANGED <<domain, queue, visited, pagesCrawled, brokenLinks,
                 consoleErrors, cur, now, fetchLog>>
  /\ context' = "closed"
  /\ UNCHANGED <<browser, page>>
  /\ UNCHANGED <<runVars, verifyVars, gngVars, auxVars>>

\* the wall clock advances while crawlDomain awaits crawlPage and the sleep
\* (crawler.ts:47, 69)
Tick ==
  /\ cpc = "fetching"
  /\ now < MaxClock
  /\ now' = now + 1
  /\ UNCHANGED <<domain, queue, visited, pagesCrawled, brokenLinks,
                 consoleErrors, issues, cpc, cur, fetchLog>>
  /\ UNCHANGED resVars
  /\ UNCHANGED <<runVars, verifyVars, gngVars, auxVars>>

\* ---------------------------------------------------------------- runAudit
Severities == {"BLOCKER", "HIGH", "MEDIUM", "LOW"}

\* a verdict whose HIGH threshold is inclusive
determineGoNoGoInclusive(summary) ==
  IF summary.BLOCKER > 0 THEN "RED"
  ELSE IF summary.HIGH >= 10 THEN "YELLOW"
  ELSE "GREEN"

\* run.ts:175-179
determineGoNoGo(summary) ==
  IF summary.BLOCKER > 0 THEN "RED"
  ELSE IF summary.HIGH > 10 THEN "YELLOW"
  ELSE "GREEN"

\* run.ts:41-46
ZeroSummary == [BLOCKER |-> 0, HIGH |-> 0, MEDIUM |-> 0, LOW |-> 0]

\* cli.ts:178-206: the domains a run audits, in order
Domains == <<"d1", "d2">>

\* cli.ts:178-218: the host of each domain
DomainHost(d) == IF d = "d1" THEN SiteHost ELSE <<"b.com">>

\* part_003:508, 855: the url the modules check, `https://${domain.domain}`
DomainUrl(d) == <<"https://">> \o DomainHost(d)

\* part_003:738-770 createSEOIssue: the fingerprint is `${domainId}:SEO:${type}`
createSEOIssue(domainId, type, severity, title, url, autoFixable) ==
  [ domain_id |-> domainId,
    category |-> "SEO",
    severity |-> severity,
    title |-> <<title>>,
    route_or_endpoint |-> url,
    auto_fixable |-> autoFixable,
    fingerprint |-> <<domainId, "SEO", type>>,
    status |-> "open",
    occurrence_count |-> 1 ]

\* part_003:798-848 REQUIRED_HEADERS, in the order of Object.entries
HeaderOrder ==
  << "strict-transport-security", "x-content-type-options", "x-frame-options",
     "x-xss-protection", "referrer-policy", "content-security-policy",
     "permissions-policy" >>

HeaderConfig(n, sev, fixable) == [name |-> n, severity |-> sev, autoFixable |-> fixable]

REQUIRED_HEADERS ==
  [ h \in { HeaderOrder[i] : i \in 1..Len(HeaderOrder) } |->
      CASE h = "strict-transport-security" ->
             HeaderConfig("Strict-Transport-Security (HSTS)", "HIGH", TRUE)
        [] h = "x-content-type-options" ->
             HeaderConfig("X-Content-Type-Options", "MEDIUM", TRUE)
        [] h = "x-frame-options" -> HeaderConfig("X-Frame-Options", "MEDIUM", TRUE)
        [] h = "x-xss-protection" -> HeaderConfig("X-XSS-Protection", "LOW", TRUE)
        [] h = "referrer-policy" -> HeaderConfig("Referrer-Policy", "LOW", TRUE)
        [] h = "content-security-policy" ->
             HeaderConfig("Content-Security-Policy", "HIGH", FALSE)
        [] h = "permissions-policy" -> HeaderConfig("Permissions-Policy", "LOW", TRUE) ]

\* part_003:947-986 createHeaderIssue: `${domainId}:security:${headerKey}`
createHeaderIssue(domainId, type, headerKey, config, url) ==
  [ domain_id |-> domainId,
    category |-> "SECURITY",
    severity |-> config.severity,
    title |-> IF type = "missing"
              THEN <<"Missing security header: ", config.name>>
              ELSE <<"Weak security header: ", config.name>>,
    route_or_endpoint |-> url,
    auto_fixable |-> config.autoFixable,
    fingerprint |-> <<domainId, "security", headerKey>>,
    status |-> "open",
    occurrence_count |-> 1 ]

\* the root page of a domain as the checks see it: its title ("none", "ok",
\* "long", or "unreachable" when page.goto throws) and the required headers
\* its response lacks
NoSite == [title |-> "ok", missing |-> {}]

\* part_003:503-736 checkSEO: the title check (517-543), and the catch of a
\* failed page load (720-730)
checkSEO(d, s) ==
  CASE s.title = "none" ->
         << createSEOIssue(d, "title", "BLOCKER", "Missing or short page title",
                           DomainUrl(d), TRUE) >>
    [] s.title = "long" ->
         << createSEOIssue(d, "title", "LOW", "Page title too long", DomainUrl(d), TRUE) >>
    [] s.title = "unreachable" ->
         << createSEOIssue(d, "error", "MEDIUM", "SEO check failed", DomainUrl(d), FALSE) >>
    [] OTHER -> <<>>

\* part_003:874-901: one issue for each required header the response lacks
RECURSIVE HeaderIssues(_, _, _)
HeaderIssues(keys, d, s) ==
  IF keys = <<>> THEN <<>>
  ELSE (IF Head(keys) \in s.missing
        THEN << createHeaderIssue(d, "missing", Head(keys), REQUIRED_HEADERS[Head(keys)],
                                  DomainUrl(d)) >>
        ELSE <<>>)
       \o HeaderIssues(Tail(keys), d, s)

\* part_003:903-906: Math.round((presentHeaders / totalHeaders) * 100)
SecurityScore(s) ==
  LET totalHeaders == Len(HeaderOrder)
      presentHeaders == totalHeaders - Cardinality(s.missing)
  IN (2 * 100 * presentHeaders + totalHeaders) \div (2 * totalHeaders)

\* part_003:850-945 checkSecurityHeaders: the header issues and, below a score
\* of 50, the summary issue (909-925)
checkSecurityHeaders(d, s) ==
  HeaderIssues(HeaderOrder, d, s)
  \o (IF SecurityScore(s) < 50
      THEN << [ domain_id |-> d,
                category |-> "SECURITY",
                severity |-> "BLOCKER",
                title |-> <<"Critical security headers missing (Score: ",
                            SecurityScore(s), "/100)">>,
                route_or_endpoint |-> DomainUrl(d),
                auto_fixable |-> TRUE,
                fingerprint |-> <<d, "security", "overall">>,
                status |-> "open",
                occurrence_count |-> 1 ] >>
      ELSE <<>>)

\* what checkSEO can return.  The root page of d2 can only lack its title;
\* that of d1 can also carry a long title or fail to load.
SeoResults(d) ==
  { checkSEO(d, [NoSite EXCEPT !.title = t]) :
      t \in IF d = "d1" THEN {"ok", "none", "long", "unreachable"} ELSE {"ok", "none"} }

\* what checkSecurityHeaders can return.  d2 always sends the headers, d1 may
\* not send HSTS.
HeaderResults(d) ==
  { checkSecurityHeaders(d, [NoSite EXCEPT !.missing = m]) :
      m \in IF d = "d1" THEN { {}, {"strict-transport-security"} } ELSE { {} } }

\* run.ts:114-151 auditDomain: the issues of the modules, in module order
DomainIssueLists(d) ==
  { h \o e : h \in HeaderResults(d), e \in SeoResults(d) }

\* a summary that counts every issue as HIGH
TallyAsHigh(summary, list) == [summary EXCEPT !.HIGH = @ + Len(list)]

\* run.ts:71-73
RECURSIVE Tally(_, _)
Tally(summary, list) ==
  IF list = <<>> THEN summary
  ELSE Tally([summary EXCEPT ![Head(list).severity] = @ + 1], Tail(list))

\* run.ts:181-189 saveRun: upsert on run_id; an error is logged
saveRun(r, ok) ==
  audit_runs' = IF ok THEN [audit_runs EXCEPT ![r.run_id] = r] ELSE audit_runs

\* the rows an insert of `list` adds: the store numbers them and fills the
\* columns the objects do not carry (0001_init.sql:76-113)
RECURSIVE Rows(_, _, _)
Rows(list, runId, firstId) ==
  IF list = <<>> THEN <<>>
  ELSE << [ id |-> firstId,
            run_id |-> runId,
            domain_id |-> Head(list).domain_id,
            category |-> Head(list).category,
            severity |-> Head(list).severity,
            title |-> Head(list).title,
            route_or_endpoint |-> Head(list).route_or_endpoint,
            auto_fixable |-> Head(list).auto_fixable,
            fingerprint |-> Head(list).fingerprint,
            status |-> Head(list).status,
            occurrence_count |-> Head(list).occurrence_count,
            last_seen_run_id |-> 0,
            verified_at |-> 0 ] >>
       \o Rows(Tail(list), runId, firstId + 1)

NoRun == [run_id |-> 0, status |-> "none", summary |-> ZeroSummary, go_no_go |-> "none"]

RunInit ==
  /\ audit_runs = [r \in 1..MaxRuns |-> NoRun]
  /\ audit_issues = <<>>
  /\ run = NoRun
  /\ allIssues = <<>>
  /\ results = <<>>
  /\ todo = <<>>
  /\ rpc = "idle"
  /\ saved = "pending"
  /\ nextRun = 1
  /\ thrown = <<>>

\* run.ts:23-50: the run record is created and saved
StartRun ==
  /\ rpc = "idle"
  /\ nextRun <= MaxRuns
  /\ LET r == [run_id |-> nextRun, status |-> "running",
               summary |-> ZeroSummary, go_no_go |-> "none"]
     IN /\ run' = r
        /\ \E ok \in BOOLEAN : saveRun(r, ok)
  /\ nextRun' = nextRun + 1
  /\ allIssues' = <<>>
  /\ results' = <<>>
  /\ todo' = <<>>
  /\ saved' = "pending"
  /\ rpc' = "created"
  /\ UNCHANGED audit_issues
  /\ thrown' = <<>>
  /\ UNCHANGED <<crawlVars, verifyVars, gngVars, auxVars>>

\* run.ts:53-60
GetDomains ==
  /\ rpc = "created"
  /\ todo' = Domains
  /\ rpc' = "domains"
  /\ UNCHANGED <<audit_runs, audit_issues, run, allIssues, results, saved, nextRun>>
  /\ UNCHANGED thrown
  /\ UNCHANGED <<crawlVars, verifyVars, gngVars, auxVars>>

\* run.ts:53, cli.ts:134-159: getDomains threw (scope without its option, or
\* the query returned an error); runAudit throws and the call ends
GetDomainsThrow ==
  /\ rpc = "created"
  /\ rpc' = "idle"
  /\ UNCHANGED <<audit_runs, audit_issues, run, allIssues, results, todo, saved,
                 nextRun, thrown>>
  /\ UNCHANGED <<crawlVars, verifyVars, gngVars, auxVars>>

\* run.ts:114-151 auditDomain has no try: the points at which a module's
\* exception leaves it, with the issues of the modules that had returned.
\* crawlDomain throws when the browser cannot be launched (crawler.ts:21-32),
\* checkSEO when its own browser cannot be (part_003:510-512).
ThrowPoints(d) ==
  { [domain |-> d, module |-> "crawlLinkIntegrity", collected |-> <<>>] }
  \cup { [domain |-> d, module |-> "seoMeta", collected |-> h] : h \in HeaderResults(d) }

\* run.ts:66-81: auditDomain returned this domain's issues
AuditDomainReturn ==
  /\ rpc = "domains"
  /\ todo # <<>>
  /\ \E domainIssues \in DomainIssueLists(Head(todo)) :
       /\ allIssues' = allIssues \o domainIssues
       /\ run' = [run EXCEPT !.summary = Tally(@, domainIssues)]
  /\ results' = Append(results, <<Head(todo), "complete">>)
  /\ todo' = Tail(todo)
  /\ UNCHANGED <<audit_runs, audit_issues, rpc, saved, nextRun>>
  /\ UNCHANGED thrown
  /\ UNCHANGED <<crawlVars, verifyVars, gngVars, auxVars>>

\* a run that a domain's failure ends
AuditDomainThrowFatal ==
  /\ rpc = "domains"
  /\ todo # <<>>
  /\ \E t \in ThrowPoints(Head(todo)) : thrown' = Append(thrown, t)
  /\ results' = Append(results, <<Head(todo), "failed">>)
  /\ rpc' = "idle"
  /\ UNCHANGED <<audit_runs, audit_issues, run, allIssues, todo, saved, nextRun>>
  /\ UNCHANGED <<crawlVars, verifyVars, gngVars, auxVars>>

\* a failed domain whose issues collected before the throw are kept
AuditDomainThrowKeepsIssues ==
  /\ rpc = "domains"
  /\ todo # <<>>
  /\ \E t \in ThrowPoints(Head(todo)) :
       /\ thrown' = Append(thrown, t)
       /\ allIssues' = allIssues \o t.collected
       /\ run' = [run EXCEPT !.summary = Tally(@, t.collected)]
  /\ results' = Append(results, <<Head(todo), "failed">>)
  /\ todo' = Tail(todo)
  /\ UNCHANGED <<audit_runs, audit_issues, rpc, saved, nextRun>>
  /\ UNCHANGED <<crawlVars, verifyVars, gngVars, auxVars>>

\* run.ts:83-89: auditDomain threw
AuditDomainThrow ==
  /\ rpc = "domains"
  /\ todo # <<>>
  /\ \E t \in ThrowPoints(Head(todo)) : thrown' = Append(thrown, t)
  /\ results' = Append(results, <<Head(todo), "failed">>)
  /\ todo' = Tail(todo)
  /\ UNCHANGED <<audit_runs, audit_issues, run, allIssues, rpc, saved, nextRun>>
  /\ UNCHANGED <<crawlVars, verifyVars, gngVars, auxVars>>

\* a run marked complete while domains are still to be audited
CompleteRunEarly ==
  /\ rpc = "domains"
  /\ LET r == [run EXCEPT !.status = "complete",
                          !.go_no_go = determineGoNoGo(run.summary)]
     IN /\ run' = r
        /\ \E ok \in BOOLEAN : saveRun(r, ok)
  /\ rpc' = "saveIssues"
  /\ UNCHANGED <<audit_issues, allIssues, results, todo, saved, nextRun>>
  /\ UNCHANGED thrown
  /\ UNCHANGED <<crawlVars, verifyVars, gngVars, auxVars>>

\* run.ts:92-101: the verdict, the run is marked complete and saved
CompleteRun ==
  /\ rpc = "domains"
  /\ todo = <<>>
  /\ LET r == [run EXCEPT !.status = "complete",
                          !.go_no_go = determineGoNoGo(run.summary)]
     IN /\ run' = r
        /\ \E ok \in BOOLEAN : saveRun(r, ok)
  /\ rpc' = "saveIssues"
  /\ UNCHANGED <<audit_issues, allIssues, results, todo, saved, nextRun>>
  /\ UNCHANGED thrown
  /\ UNCHANGED <<crawlVars, verifyVars, gngVars, auxVars>>

\* a run that an error of the insert marks failed
saveIssuesFailsRun ==
  /\ rpc = "saveIssues"
  /\ \/ /\ Len(allIssues) = 0
        /\ saved' = "skipped"
        /\ UNCHANGED audit_issues
     \/ /\ Len(allIssues) > 0
        /\ audit_issues' = audit_issues
                             \o Rows(allIssues, run.run_id, Len(audit_issues) + 1)
        /\ saved' = "ok"
     \/ /\ Len(allIssues) > 0
        /\ saved' = "error"
        /\ UNCHANGED audit_issues
  /\ rpc' = "idle"
  /\ run' = IF saved' = "error" THEN [run EXCEPT !.status = "failed"] ELSE run
  /\ UNCHANGED <<audit_runs, allIssues, results, todo, nextRun>>
  /\ UNCHANGED thrown
  /\ UNCHANGED <<crawlVars, verifyVars, gngVars, auxVars>>

\* run.ts:191-201 saveIssues (and run.ts:104-111, the end of the call)
saveIssues ==
  /\ rpc = "saveIssues"
  /\ \/ /\ Len(allIssues) = 0
        /\ saved' = "skipped"
        /\ UNCHANGED audit_issues
     \/ /\ Len(allIssues) > 0
        /\ audit_issues' = audit_issues
                             \o Rows(allIssues, run.run_id, Len(audit_issues) + 1)
        /\ saved' = "ok"
     \/ /\ Len(allIssues) > 0
        /\ saved' = "error"
        /\ UNCHANGED audit_issues
  /\ rpc' = "idle"
  /\ UNCHANGED <<audit_runs, run, allIssues, results, todo, nextRun>>
  /\ UNCHANGED thrown
  /\ UNCHANGED <<crawlVars, verifyVars, gngVars, auxVars>>

\* 0001_init.sql:119-127: the rows of audit_suppressions, which no command
\* reads or writes; expired stands for expires_at < now()
audit_suppressions ==
  { [fingerprint |-> <<"d1", "SEO", "title">>, is_active |-> TRUE, expired |-> FALSE],
    [fingerprint |-> <<"d2", "SEO", "title">>, is_active |-> TRUE, expired |-> TRUE] }

\* the severities in the order of their names
severityOrderByName == <<"BLOCKER", "HIGH", "LOW", "MEDIUM">>

\* part_003:1090, 1245
severityOrder == <<"BLOCKER", "HIGH", "MEDIUM", "LOW">>

\* Array.prototype.indexOf, counted from 1; 0 when absent
IndexOf(seq, x) ==
  IF \E i \in 1..Len(seq) : seq[i] = x
  THEN CHOOSE i \in 1..Len(seq) : seq[i] = x /\ \A j \in 1..(i - 1) : seq[j] # x
  ELSE 0

\* the severities from the given one on
allowedSeveritiesFrom(severity) ==
  SubSeq(severityOrder, IndexOf(severityOrder, severity), Len(severityOrder))

\* part_003:1089-1093: severityOrder.slice(0, minIndex + 1)
allowedSeverities(severity) ==
  SubSeq(severityOrder, 1, IndexOf(severityOrder, severity))

RECURSIVE SelectRows(_, _)
SelectRows(rows, keep) ==
  IF rows = <<>> THEN <<>>
  ELSE (IF Head(rows).id \in keep THEN <<Head(rows)>> ELSE <<>>)
       \o SelectRows(Tail(rows), keep)

\* part_003:1081-1096: the rows the query returns: of the run, open, of an
\* allowed severity when the option is given; ordered by severity, rows of
\* one severity in the order of the table
FetchIssues(rows, runId, severity) ==
  LET match == { i \in 1..Len(rows) :
                   /\ rows[i].run_id = runId
                   /\ rows[i].status = "open"
                   /\ severity # "none" =>
                        \E k \in 1..Len(allowedSeverities(severity)) :
                          allowedSeverities(severity)[k] = rows[i].severity }
      of(sev) == { rows[i].id : i \in { j \in match : rows[j].severity = sev } }
  IN SelectRows(rows, of("BLOCKER")) \o SelectRows(rows, of("HIGH"))
       \o SelectRows(rows, of("LOW")) \o SelectRows(rows, of("MEDIUM"))

\* part_003:1081-1096 generateFixPacket: the rows the packet of a run is built
\* from when no severity is given
FixPacketIssues(runId) ==
  LET found == FetchIssues(audit_issues, runId, "none")
  IN { found[k] : k \in 1..Len(found) }

\* part_003:1174-1203
generateAcceptanceCriteria(issue) ==
  CASE issue.category = "SEO" ->
         << "Meta tags are present and correctly formatted",
            "No SEO warnings in Lighthouse audit" >>
    [] issue.category = "SECURITY" ->
         << "Security header is present in response",
            "Header value matches recommended configuration" >>
    [] issue.category = "A11Y" ->
         << "WCAG 2.1 AA compliance for affected elements", "Screen reader compatible" >>
    [] issue.category = "PERF" ->
         << "Lighthouse performance score improved", "Core Web Vitals pass thresholds" >>
    [] issue.category = "LINKS" ->
         << "All links return 2xx or 3xx status", "No 404 errors in crawl" >>
    [] OTHER -> << "Issue no longer appears in audit" >>

\* part_003:1205-1211
generateVerificationSteps(issue) ==
  << <<"Re-run audit on ", issue.route_or_endpoint>>,
     <<"Check that issue fingerprint ", issue.fingerprint, " is no longer detected">>,
     <<"Verify no new issues introduced">> >>

\* part_003:1155-1172
transformIssue(issue) ==
  [ id |-> issue.id,
    fingerprint |-> issue.fingerprint,
    severity |-> issue.severity,
    category |-> issue.category,
    domain |-> "",
    route_or_endpoint |-> issue.route_or_endpoint,
    title |-> issue.title,
    acceptance_criteria |-> generateAcceptanceCriteria(issue),
    verification |-> generateVerificationSteps(issue),
    autoFixable |-> issue.auto_fixable ]

RECURSIVE MapTransform(_)
MapTransform(rows) ==
  IF rows = <<>> THEN <<>> ELSE <<transformIssue(Head(rows))>> \o MapTransform(Tail(rows))

\* part_003:1110-1124
BuildPacket(runId, targetAI, found, at) ==
  [ runId |-> runId,
    generatedAt |-> at,
    generatedBy |-> "javari-auditops",
    targetAI |-> targetAI,
    summary |->
      [ BLOCKER |-> Cardinality({ k \in 1..Len(found) : found[k].severity = "BLOCKER" }),
        HIGH |-> Cardinality({ k \in 1..Len(found) : found[k].severity = "HIGH" }),
        MEDIUM |-> Cardinality({ k \in 1..Len(found) : found[k].severity = "MEDIUM" }),
        LOW |-> Cardinality({ k \in 1..Len(found) : found[k].severity = "LOW" }),
        autoFixable |-> Cardinality({ k \in 1..Len(found) : found[k].auto_fixable }) ],
    issues |-> MapTransform(found) ]

RECURSIVE Lines(_, _)
Lines(tag, seq) ==
  IF seq = <<>> THEN <<>> ELSE << <<tag, Head(seq)>> >> \o Lines(tag, Tail(seq))

\* part_003:1254-1288: the lines of one issue
IssueLines(issue) ==
  << <<"## ", IF issue.autoFixable THEN "robot" ELSE "person", issue.title>>,
     <<"**ID:** ", issue.fingerprint>>,
     <<"**Category:** ", issue.category>>,
     <<"**Route:** ", issue.route_or_endpoint>>,
     <<"**Auto-Fixable:** ",
       IF issue.autoFixable THEN "Yes" ELSE "No - Escalate to Claude">>,
     <<"### Acceptance Criteria">> >>
  \o Lines("- [ ] ", issue.acceptance_criteria)
  \o << <<"### Verification">> >>
  \o Lines("1. ", issue.verification)
  \o << <<"---">> >>

RECURSIVE IssuesLines(_)
IssuesLines(list) ==
  IF list = <<>> THEN <<>> ELSE IssueLines(Head(list)) \o IssuesLines(Tail(list))

\* part_003:1247-1289: the section of each severity that has issues
RECURSIVE SeverityLines(_, _)
SeverityLines(order, packet) ==
  IF order = <<>> THEN <<>>
  ELSE LET severityIssues ==
             SelectSeq(packet.issues, LAMBDA i : i.severity = Head(order))
       IN (IF Len(severityIssues) = 0 THEN <<>>
           ELSE << <<"# ISSUES ", Head(order), Len(severityIssues)>> >>
                \o IssuesLines(severityIssues))
          \o SeverityLines(Tail(order), packet)

\* String.prototype.toUpperCase on the target names
toUpperCase(t) ==
  CASE t = "javari" -> "JAVARI" [] t = "claude" -> "CLAUDE" [] t = "both" -> "BOTH"

\* a rendering that numbers the document after the packets already stored
generateMarkdownNumbered(packet) ==
  << <<"# JAVARI AUDITOPS - FIX PACKET", Len(audit_fix_packets)>>,
     <<"## Run: ", packet.runId>> >>
  \o SeverityLines(severityOrder, packet)

\* part_003:1221-1296 generateMarkdown: the lines of the document
generateMarkdown(packet) ==
  << <<"# JAVARI AUDITOPS - FIX PACKET">>,
     <<"## Run: ", packet.runId>>,
     <<"## Generated: ", packet.generatedAt>>,
     <<"## Target: ", toUpperCase(packet.targetAI)>>,
     <<"# SUMMARY">>,
     <<"| BLOCKER | ", packet.summary.BLOCKER>>,
     <<"| HIGH | ", packet.summary.HIGH>>,
     <<"| MEDIUM | ", packet.summary.MEDIUM>>,
     <<"| LOW | ", packet.summary.LOW>>,
     <<"| **Auto-Fixable** | ", packet.summary.autoFixable>> >>
  \o SeverityLines(severityOrder, packet)
  \o << <<"# END OF FIX PACKET">>, <<"*Generated by Javari AuditOps*">> >>

\* ------------------------------------------------------------- verifyFixes
\* the store after two runs: run 1 found a broken link, a missing HSTS header
\* and a missing title on d1 and a missing title on d2; run 2 found d1's
\* missing title again
StoredIssues ==
  Rows(<< createIssue("d1", "LINKS", "HIGH", <<"Broken link detected">>,
                      Href(LinkOrder[1]), TRUE),
          createHeaderIssue("d1", "missing", "strict-transport-security",
                            REQUIRED_HEADERS["strict-transport-security"],
                            DomainUrl("d1")),
          createSEOIssue("d1", "title", "BLOCKER", "Missing or short page title",
                         DomainUrl("d1"), TRUE),
          createSEOIssue("d2", "title", "BLOCKER", "Missing or short page title",
                         DomainUrl("d2"), TRUE) >>,
       1, 1)
  \o Rows(<< createSEOIssue("d1", "title", "BLOCKER", "Missing or short page title",
                         DomainUrl("d1"), TRUE) >>,
          2, 5)

\* the statuses the rows may have been given since they were inserted
StartStatuses == {"open", "fixing"}

VerifyInit ==
  /\ audit_domains \in { {"d1", "d2"}, {"d1"}, {"d2"} }
  /\ vopts = [runId |-> 0, issueId |-> 0]
  /\ vpc = "idle"
  /\ vGroups = <<>>
  /\ vIssues = <<>>
  /\ vNew = <<>>
  /\ verified = 0
  /\ stillPresent = 0
  /\ vLog = <<>>

VerifyIdle ==
  /\ audit_domains = {"d1", "d2"}
  /\ vopts = [runId |-> 0, issueId |-> 0]
  /\ vpc = "done"
  /\ vGroups = <<>>
  /\ vIssues = <<>>
  /\ vNew = <<>>
  /\ verified = 0
  /\ stillPresent = 0
  /\ vLog = <<>>

\* the store of SpecVerify: StoredIssues, each row in one of StartStatuses
StoreInit ==
  /\ audit_runs = [r \in 1..MaxRuns |-> NoRun]
  /\ audit_issues \in
       { [i \in 1..Len(StoredIssues) |-> [StoredIssues[i] EXCEPT !.status = st[i]]] :
           st \in [1..Len(StoredIssues) -> StartStatuses] }
  /\ run = NoRun
  /\ allIssues = <<>>
  /\ results = <<>>
  /\ todo = <<>>
  /\ rpc = "idle"
  /\ saved = "pending"
  /\ nextRun = MaxRuns + 1
  /\ thrown = <<>>

\* verify.ts:26-37: the rows the query selects
RECURSIVE Selected(_, _)
Selected(rows, o) ==
  IF rows = <<>> THEN <<>>
  ELSE (IF /\ Head(rows).run_id = o.runId
           /\ Head(rows).status = "fixing"
           /\ (o.issueId # 0 => Head(rows).id = o.issueId)
        THEN <<Head(rows)>> ELSE <<>>)
       \o Selected(Tail(rows), o)

\* verify.ts:52-57: issuesByDomain, a Map in insertion order
RECURSIVE GroupByDomain(_, _)
GroupByDomain(rows, groups) ==
  IF rows = <<>> THEN groups
  ELSE LET d == Head(rows).domain_id
           at == { g \in 1..Len(groups) : groups[g].domainId = d }
       IN GroupByDomain(Tail(rows),
            IF at = {}
            THEN Append(groups, [domainId |-> d, issues |-> <<Head(rows)>>])
            ELSE LET g == CHOOSE x \in at : TRUE
                 IN [groups EXCEPT ![g].issues = Append(@, Head(rows))])

\* verify.ts:79: the categories of the domain's issues, in order of first occurrence
RECURSIVE Categories(_, _)
Categories(rows, acc) ==
  IF rows = <<>> THEN acc
  ELSE Categories(Tail(rows),
         IF \E k \in 1..Len(acc) : acc[k] = Head(rows).category THEN acc
         ELSE Append(acc, Head(rows).category))

\* verify.ts:82-98: what the check of one category can return; a category
\* without a case in the switch runs no check
CheckResults(category, d) ==
  IF category = "SEO" THEN SeoResults(d)
  ELSE IF category = "SECURITY" THEN HeaderResults(d)
  ELSE { <<>> }

\* verify.ts:80-98: the possible newIssues for the categories, in order
RECURSIVE NewIssueLists(_, _)
NewIssueLists(cats, d) ==
  IF cats = <<>> THEN { <<>> }
  ELSE { a \o b : a \in CheckResults(Head(cats), d), b \in NewIssueLists(Tail(cats), d) }

\* verify.ts:23-57: the options, the query and the grouping
VerifySelect ==
  /\ vpc = "idle"
  /\ \E o \in [runId : 1..MaxRuns, issueId : 0..Len(audit_issues)] :
       /\ vopts' = o
       /\ \/ \* verify.ts:39-42: the query failed
             /\ vGroups' = <<>>
             /\ vpc' = "done"
          \/ \* verify.ts:44-47: nothing to verify
             /\ Selected(audit_issues, o) = <<>>
             /\ vGroups' = <<>>
             /\ vpc' = "done"
          \/ /\ Selected(audit_issues, o) # <<>>
             /\ vGroups' = GroupByDomain(Selected(audit_issues, o), <<>>)
             /\ vpc' = "domains"
  /\ UNCHANGED <<audit_domains, vIssues, vNew, verified, stillPresent, vLog,
                 audit_issues>>
  /\ UNCHANGED <<crawlVars, runRest, gngVars, auxVars>>

\* a skipped domain whose issues are counted as verified
VerifyDomainMissingCounts ==
  /\ vpc = "domains"
  /\ vGroups # <<>>
  /\ Head(vGroups).domainId \notin audit_domains
  /\ vGroups' = Tail(vGroups)
  /\ verified' = verified + Len(Head(vGroups).issues)
  /\ UNCHANGED <<audit_domains, vopts, vpc, vIssues, vNew,
                 stillPresent, vLog, audit_issues>>
  /\ UNCHANGED <<crawlVars, runRest, gngVars, auxVars>>

\* verify.ts:73-76: the domain has no configuration, its issues are skipped
VerifyDomainMissing ==
  /\ vpc = "domains"
  /\ vGroups # <<>>
  /\ Head(vGroups).domainId \notin audit_domains
  /\ vGroups' = Tail(vGroups)
  /\ UNCHANGED <<audit_domains, vopts, vpc, vIssues, vNew, verified,
                 stillPresent, vLog, audit_issues>>
  /\ UNCHANGED <<crawlVars, runRest, gngVars, auxVars>>

\* verify.ts:63-101: the checks of the domain's categories are run again
VerifyDomainChecks ==
  /\ vpc = "domains"
  /\ vGroups # <<>>
  /\ Head(vGroups).domainId \in audit_domains
  /\ vNew' \in NewIssueLists(Categories(Head(vGroups).issues, <<>>),
                              Head(vGroups).domainId)
  /\ vIssues' = Head(vGroups).issues
  /\ vGroups' = Tail(vGroups)
  /\ vpc' = "issues"
  /\ UNCHANGED <<audit_domains, vopts, verified, stillPresent, vLog, audit_issues>>
  /\ UNCHANGED <<crawlVars, runRest, gngVars, auxVars>>

\* verify.ts:101
newFingerprints == { vNew[k].fingerprint : k \in 1..Len(vNew) }

\* an update that matches the rows by the fingerprint of row `id`
UpdateByFingerprint(rows, id, status, verifiedAt) ==
  [i \in 1..Len(rows) |->
     IF rows[i].fingerprint = rows[id].fingerprint
     THEN [rows[i] EXCEPT !.status = status, !.verified_at = verifiedAt]
     ELSE rows[i]]

\* supabase .update(fields).eq('id', id)
UpdateById(rows, id, status, verifiedAt) ==
  [i \in 1..Len(rows) |->
     IF rows[i].id = id
     THEN [rows[i] EXCEPT !.status = status, !.verified_at = verifiedAt]
     ELSE rows[i]]

\* a verification that leaves a still-present issue as it found it
VerifyIssueKeepsStatus ==
  /\ vpc = "issues"
  /\ vIssues # <<>>
  /\ LET issue == Head(vIssues)
         stillExists == issue.fingerprint \in newFingerprints
     IN /\ IF stillExists
           THEN /\ stillPresent' = stillPresent + 1
                /\ UNCHANGED <<verified, audit_issues>>
           ELSE /\ verified' = verified + 1
                /\ audit_issues' = UpdateById(audit_issues, issue.id, "verified", 1)
                /\ UNCHANGED stillPresent
        /\ vLog' = Append(vLog, [id |-> issue.id, fresh |-> vNew])
  /\ vIssues' = Tail(vIssues)
  /\ UNCHANGED <<audit_domains, vopts, vpc, vGroups, vNew>>
  /\ UNCHANGED <<crawlVars, runRest, gngVars, auxVars>>

\* verify.ts:103-129: one issue of the domain is decided and its row updated
VerifyIssue ==
  /\ vpc = "issues"
  /\ vIssues # <<>>
  /\ LET issue == Head(vIssues)
         stillExists == issue.fingerprint \in newFingerprints
     IN /\ IF stillExists
           THEN /\ stillPresent' = stillPresent + 1
                /\ audit_issues' =
                     UpdateById(audit_issues, issue.id, "open",
                                audit_issues[issue.id].verified_at)
                /\ UNCHANGED verified
           ELSE /\ verified' = verified + 1
                /\ audit_issues' = UpdateById(audit_issues, issue.id, "verified", 1)
                /\ UNCHANGED stillPresent
        /\ vLog' = Append(vLog, [id |-> issue.id, fresh |-> vNew])
  /\ vIssues' = Tail(vIssues)
  /\ UNCHANGED <<audit_domains, vopts, vpc, vGroups, vNew>>
  /\ UNCHANGED <<crawlVars, runRest, gngVars, auxVars>>

\* verify.ts:103, 63: the domain's issues are done, the next domain follows
VerifyNextDomain ==
  /\ vpc = "issues"
  /\ vIssues = <<>>
  /\ vpc' = "domains"
  /\ UNCHANGED <<audit_domains, vopts, vGroups, vIssues, vNew, verified,
                 stillPresent, vLog, audit_issues>>
  /\ UNCHANGED <<crawlVars, runRest, gngVars, auxVars>>

\* verify.ts:132-144: the summary is printed and the call ends
VerifySummary ==
  /\ vpc = "domains"
  /\ vGroups = <<>>
  /\ vpc' = "done"
  /\ UNCHANGED <<audit_domains, vopts, vGroups, vIssues, vNew, verified,
                 stillPresent, vLog, audit_issues>>
  /\ UNCHANGED <<crawlVars, runRest, gngVars, auxVars>>

\* the statuses another client of the store gives a row in status fixing while
\* a verification is under way: open or verified by a second verifyFixes on
\* the same run (verify.ts:111-127), suppressed or wontfix by triage
\* (0001_init.sql:109)
OtherWriterStatuses == {"open", "verified", "suppressed", "wontfix"}

\* between two awaits of verifyFixes another client updates a row of the run
StoreWrite ==
  /\ vpc \in {"domains", "issues"}
  /\ \E i \in 1..Len(audit_issues), st \in OtherWriterStatuses :
       /\ audit_issues[i].run_id = vopts.runId
       /\ audit_issues[i].status = "fixing"
       /\ audit_issues' =
            UpdateById(audit_issues, audit_issues[i].id, st,
                       IF st = "verified" THEN 1 ELSE audit_issues[i].verified_at)
  /\ UNCHANGED verifyVars
  /\ UNCHANGED <<crawlVars, runRest, gngVars, auxVars>>

\* ------------------------------------------------ determineGoNoGo, applied
\* a database function whose HIGH threshold is inclusive
determine_go_no_go_inclusive(p_blocker, p_high) ==
  IF p_blocker > 0 THEN "RED"
  ELSE IF p_high >= 10 THEN "YELLOW"
  ELSE "GREEN"

\* 0001_init.sql:264-277
determine_go_no_go(p_blocker, p_high) ==
  IF p_blocker > 0 THEN "RED"
  ELSE IF p_high > 10 THEN "YELLOW"
  ELSE "GREEN"

GngInit ==
  /\ counts \in [BLOCKER : 0..MaxBlocker, HIGH : 0..MaxHigh,
                  MEDIUM : 0..MaxMedium, LOW : 0..MaxLow]
  /\ verdict = "none"
  /\ dbVerdict = "none"

GngIdle ==
  /\ counts = ZeroSummary
  /\ verdict = "none"
  /\ dbVerdict = "none"

\* run.ts:93 and SELECT determine_go_no_go(blocker, high) on the same counts
ApplyGoNoGo ==
  /\ verdict = "none"
  /\ verdict' = determineGoNoGo(counts)
  /\ dbVerdict' = determine_go_no_go(counts.BLOCKER, counts.HIGH)
  /\ UNCHANGED counts
  /\ UNCHANGED <<crawlVars, runVars, verifyVars, auxVars>>

\* -------------------------------------------------------------- Lighthouse
\* part_003:271-276: a score is Math.round((score || 0) * 100)
MaxScore == 100

\* part_003:230-235
THRESHOLDS ==
  [ performance   |-> [BLOCKER |-> 20, HIGH |-> 40, MEDIUM |-> 60],
    accessibility |-> [BLOCKER |-> 50, HIGH |-> 70, MEDIUM |-> 85],
    seo           |-> [BLOCKER |-> 50, HIGH |-> 70, MEDIUM |-> 85],
    bestPractices |-> [BLOCKER |-> 50, HIGH |-> 70, MEDIUM |-> 85] ]

\* part_003:279-315: the metrics runLighthouse checks, in order, and the
\* category it files each under
CheckedMetrics == <<"performance", "accessibility", "seo">>

MetricCategory(metric) ==
  CASE metric = "performance" -> "PERF"
    [] metric = "accessibility" -> "A11Y"
    [] metric = "seo" -> "SEO"

\* a severity scale whose bounds count the score on the threshold as below it
lighthouseSeverityInclusive(metric, score) ==
  LET thresholds == THRESHOLDS[metric]
  IN IF score <= thresholds.BLOCKER THEN "BLOCKER"
     ELSE IF score <= thresholds.HIGH THEN "HIGH"
     ELSE IF score <= thresholds.MEDIUM THEN "MEDIUM"
     ELSE "LOW"

\* part_003:366-372
lighthouseSeverity(metric, score) ==
  LET thresholds == THRESHOLDS[metric]
  IN IF score < thresholds.BLOCKER THEN "BLOCKER"
     ELSE IF score < thresholds.HIGH THEN "HIGH"
     ELSE IF score < thresholds.MEDIUM THEN "MEDIUM"
     ELSE "LOW"

\* part_003:358-401: the fingerprint is `${domainId}:${category}:${metric}`
createLighthouseIssue(domainId, category, metric, score, url) ==
  [ domain_id |-> domainId,
    category |-> category,
    severity |-> lighthouseSeverity(metric, score),
    title |-> <<"Low ", category, " score: ", score, "/100">>,
    route_or_endpoint |-> url,
    auto_fixable |-> FALSE,
    fingerprint |-> <<domainId, category, metric>>,
    status |-> "open",
    occurrence_count |-> 1 ]

\* part_003:436-450
isCriticalAudit(auditId) ==
  auditId \in { "first-contentful-paint", "largest-contentful-paint",
                "cumulative-layout-shift", "total-blocking-time", "image-alt",
                "button-name", "link-name", "document-title",
                "meta-description", "viewport" }

\* part_003:452-460
getAuditCategory(auditId) ==
  IF auditId \in {"image-alt", "button-name", "link-name"} THEN "A11Y"
  ELSE IF auditId \in {"document-title", "meta-description", "viewport"} THEN "SEO"
  ELSE "PERF"

\* part_003:462-469
getAuditSeverity(auditId) ==
  IF auditId \in {"first-contentful-paint", "largest-contentful-paint"} THEN "BLOCKER"
  ELSE IF auditId \in {"cumulative-layout-shift", "total-blocking-time", "image-alt"}
       THEN "HIGH"
  ELSE "MEDIUM"

\* part_003:471-479
isAutoFixable(auditId) ==
  auditId \in {"document-title", "meta-description", "viewport", "image-alt"}

\* part_003:403-434: the fingerprint is `${domainId}:${audit.id}`
createSpecificAuditIssue(domainId, auditId, url) ==
  [ domain_id |-> domainId,
    category |-> getAuditCategory(auditId),
    severity |-> getAuditSeverity(auditId),
    title |-> <<auditId>>,
    route_or_endpoint |-> url,
    auto_fixable |-> isAutoFixable(auditId),
    fingerprint |-> <<domainId, auditId>>,
    status |-> "open",
    occurrence_count |-> 1 ]

\* part_003:334-348: the finding of the catch
lighthouseFailed(domainId, url) ==
  [ domain_id |-> domainId,
    category |-> "PERF",
    severity |-> "MEDIUM",
    title |-> <<"Lighthouse audit failed">>,
    route_or_endpoint |-> url,
    auto_fixable |-> FALSE,
    fingerprint |-> <<domainId, "lighthouse", "failed">>,
    status |-> "open",
    occurrence_count |-> 1 ]

\* part_003:278-315: one issue for each checked metric below its MEDIUM threshold
RECURSIVE MetricIssues(_, _, _, _)
MetricIssues(metrics, scores, domainId, url) ==
  IF metrics = <<>> THEN <<>>
  ELSE LET metric == Head(metrics)
       IN (IF scores[metric] < THRESHOLDS[metric].MEDIUM
           THEN << createLighthouseIssue(domainId, MetricCategory(metric), metric,
                                         scores[metric], url) >>
           ELSE <<>>)
          \o MetricIssues(Tail(metrics), scores, domainId, url)

\* part_003:318-332: one issue for each critical audit among the first ten
\* failing ones
RECURSIVE AuditIssues(_, _, _)
AuditIssues(failing, domainId, url) ==
  IF failing = <<>> THEN <<>>
  ELSE (IF isCriticalAudit(Head(failing))
        THEN << createSpecificAuditIssue(domainId, Head(failing), url) >>
        ELSE <<>>)
       \o AuditIssues(Tail(failing), domainId, url)

\* part_003:237-356 runLighthouse on a result: `ok` is false when Chrome or
\* Lighthouse threw, `failing` are the audits with a score below 0.5
runLighthouse(d, result) ==
  IF ~result.ok THEN << lighthouseFailed(d, DomainUrl(d)) >>
  ELSE MetricIssues(CheckedMetrics, result.scores, d, DomainUrl(d))
       \o AuditIssues(SubSeq(result.failing, 1, IF Len(result.failing) < 10
                                                 THEN Len(result.failing) ELSE 10),
                      d, DomainUrl(d))

NoOptions == [runId |-> 0, severity |-> "none", target |-> "javari"]

NoAudit == [issues |-> <<>>, summary |-> ZeroSummary, go_no_go |-> "none"]

LhCategories == {"performance", "accessibility", "seo", "bestPractices"}

NoLhr == [ok |-> FALSE, scores |-> [c \in LhCategories |-> 0], failing |-> <<>>]

\* the results Lighthouse can give: one category has any score, each of the
\* others is perfect or poor
LighthouseResults ==
  { [ok |-> o, scores |-> [base EXCEPT ![c] = sc], failing |-> f] :
      o \in BOOLEAN,
      base \in [LhCategories -> {30, MaxScore}],
      c \in LhCategories,
      sc \in 0..MaxScore,
      f \in { <<>>, <<"document-title">>, <<"uses-http2", "largest-contentful-paint">> } }

LhInit ==
  /\ lhr \in LighthouseResults
  /\ lhIssues = <<>>
  /\ findings = <<>>
  /\ fps = <<>>
  /\ pkOptions = NoOptions
  /\ audit_fix_packets = <<>>
  /\ site = NoSite
  /\ invoked = {}
  /\ audit = NoAudit
  /\ apc = "ready"
  /\ CfgIdle

\* run.ts:129-133: the Lighthouse module on domain d1
RunLighthouse ==
  /\ apc = "ready"
  /\ lhIssues' = runLighthouse("d1", lhr)
  /\ apc' = "done"
  /\ UNCHANGED <<lhr, findings, fps, pkOptions, audit_fix_packets, site, invoked, audit>>
  /\ UNCHANGED <<crawlVars, runVars, verifyVars, gngVars, cfgVars>>

\* ------------------------------------------------------------ fingerprints
\* the findings the modules can report: the module, the domain's id, the
\* category, the identity of the rule (the crawler's title, the SEO type, the
\* header key, the Lighthouse metric) and the route, which for the checks of
\* the root page is `https://${domain.domain}` of the domain row at that time
FindingInputs ==
  [ module : {"crawler"}, domainId : {"d1", "d2"}, category : {"LINKS"},
    rule : { <<"Broken link detected">>, <<"Page failed to load: ", Href(LinkOrder[1])>> },
    route : { Href(LinkOrder[1]), Href(LinkOrder[3]) } ]
  \cup
  [ module : {"seo"}, domainId : {"d1", "d2"}, category : {"SEO"},
    rule : { <<"title">>, <<"description">> },
    route : { DomainUrl("d1"), DomainUrl("d2") } ]
  \cup
  [ module : {"security"}, domainId : {"d1", "d2"}, category : {"SECURITY"},
    rule : { <<"strict-transport-security">>, <<"content-security-policy">> },
    route : { DomainUrl("d1"), DomainUrl("d2") } ]
  \cup
  { [ module |-> "lighthouse", domainId |-> d, category |-> MetricCategory(m),
      rule |-> <<m>>, route |-> r ] :
      d \in {"d1", "d2"}, m \in {"performance", "seo"},
      r \in { DomainUrl("d1"), DomainUrl("d2") } }

\* the fingerprint the module's constructor gives the finding
\* (crawler.ts:215-219, part_003:748-752, 956-960, 380-384)
fingerprintOf(f) ==
  CASE f.module = "crawler" ->
         createIssue(f.domainId, f.category, "HIGH", f.rule, f.route, FALSE).fingerprint
    [] f.module = "seo" ->
         createSEOIssue(f.domainId, f.rule[1], "BLOCKER", "", f.route, TRUE).fingerprint
    [] f.module = "security" ->
         createHeaderIssue(f.domainId, "missing", f.rule[1], REQUIRED_HEADERS[f.rule[1]],
                           f.route).fingerprint
    [] f.module = "lighthouse" ->
         createLighthouseIssue(f.domainId, f.category, f.rule[1], 0, f.route).fingerprint

FpInit ==
  /\ lhr = NoLhr
  /\ lhIssues = <<>>
  /\ findings \in FindingInputs \X FindingInputs
  /\ fps = <<>>
  /\ pkOptions = NoOptions
  /\ audit_fix_packets = <<>>
  /\ site = NoSite
  /\ invoked = {}
  /\ audit = NoAudit
  /\ apc = "ready"
  /\ CfgIdle

\* the two findings are built
BuildFindings ==
  /\ apc = "ready"
  /\ fps' = << fingerprintOf(findings[1]), fingerprintOf(findings[2]) >>
  /\ apc' = "done"
  /\ UNCHANGED <<lhr, lhIssues, findings, pkOptions, audit_fix_packets, site, invoked,
                 audit>>
  /\ UNCHANGED <<crawlVars, runVars, verifyVars, gngVars, cfgVars>>

\* ---------------------------------------------- auditDomain after the crawl
\* the root pages the checks can meet
Sites ==
  [ title : {"ok", "none"},
    missing : { {}, {"strict-transport-security"},
                {"strict-transport-security", "content-security-policy",
                 "x-frame-options", "referrer-policy"} } ]

\* what Lighthouse reports of the root page (part_003:252-276, 318-320): its
\* document-title audit scores 0 on a page without a title
LighthouseOf(s) ==
  [ ok |-> TRUE,
    scores |-> [c \in LhCategories |-> MaxScore],
    failing |-> IF s.title = "none" THEN <<"document-title">> ELSE <<>> ]

\* run.ts:153-173 parseModules: the default modules after the crawl
ModulesAfterCrawl == <<"lighthouse", "securityHeaders", "seoMeta">>

AuditInit ==
  /\ lhr = NoLhr
  /\ lhIssues = <<>>
  /\ findings = <<>>
  /\ fps = <<>>
  /\ pkOptions = NoOptions
  /\ audit_fix_packets = <<>>
  /\ site = NoSite
  /\ invoked = {}
  /\ audit = NoAudit
  /\ apc = "ready"
  /\ CfgIdle

\* run.ts:128-150: crawlDomain has returned; Lighthouse, the security headers
\* and the SEO check are run, each on `https://${domain.domain}` (part_003:242,
\* 508, 855); run.ts:67-99: the issues are counted and the verdict is drawn
AuditModules ==
  /\ apc = "ready"
  /\ cpc = "done"
  /\ \E s \in Sites :
       LET all == issues \o runLighthouse(domain.id, LighthouseOf(s))
                         \o checkSecurityHeaders(domain.id, s)
                         \o checkSEO(domain.id, s)
           summary == Tally(ZeroSummary, all)
       IN /\ site' = s
          /\ audit' = [issues |-> all, summary |-> summary,
                       go_no_go |-> determineGoNoGo(summary)]
  /\ invoked' = { <<ModulesAfterCrawl[i], DomainUrl(domain.id)>> :
                    i \in 1..Len(ModulesAfterCrawl) }
  /\ apc' = "done"
  /\ UNCHANGED <<lhr, lhIssues, findings, fps, pkOptions, audit_fix_packets>>
  /\ UNCHANGED <<crawlVars, runVars, verifyVars, gngVars, cfgVars>>

\* -------------------------------------------------------- generateFixPacket
\* 0001_init.sql:109: the statuses a row of audit_issues can have
IssueStatuses == {"open", "fixing", "fixed", "verified", "suppressed", "wontfix"}

\* the issues two runs stored: run 1 a broken link (HIGH), a missing
\* X-Frame-Options header (MEDIUM), a long title (LOW) and a missing
\* Content-Security-Policy header (HIGH) on d1, run 2 a missing title on d2
\* (BLOCKER)
PacketIssues ==
  Rows(<< createIssue("d1", "LINKS", "HIGH", <<"Broken link detected">>,
                      Href(LinkOrder[1]), TRUE),
          createHeaderIssue("d1", "missing", "x-frame-options",
                            REQUIRED_HEADERS["x-frame-options"], DomainUrl("d1")),
          createSEOIssue("d1", "title", "LOW", "Page title too long",
                         DomainUrl("d1"), TRUE),
          createHeaderIssue("d1", "missing", "content-security-policy",
                            REQUIRED_HEADERS["content-security-policy"],
                            DomainUrl("d1")) >>,
       1, 1)
  \o Rows(<< createSEOIssue("d2", "title", "BLOCKER", "Missing or short page title",
                            DomainUrl("d2"), TRUE) >>,
          2, 5)

\* the statuses a stored issue may be in: the missing Content-Security-Policy
\* header has not been worked on
PacketStatuses(i) == IF PacketIssues[i].id = 4 THEN {"open"} ELSE IssueStatuses

\* the store generateFixPacket reads: every run running or complete, every
\* issue in one of its statuses
PacketStoreInit ==
  /\ audit_runs \in
       { [r \in 1..MaxRuns |->
            [run_id |-> r, status |-> st[r], summary |-> ZeroSummary,
             go_no_go |-> IF st[r] = "complete" THEN "GREEN" ELSE "none"]] :
           st \in [1..MaxRuns -> {"running", "complete"}] }
  /\ audit_issues \in
       { [i \in 1..Len(PacketIssues) |-> [PacketIssues[i] EXCEPT !.status = st[i]]] :
           st \in { f \in [1..Len(PacketIssues) -> IssueStatuses] :
                      \A i \in 1..Len(PacketIssues) : f[i] \in PacketStatuses(i) } }
  /\ run = NoRun
  /\ allIssues = <<>>
  /\ results = <<>>
  /\ todo = <<>>
  /\ rpc = "idle"
  /\ saved = "pending"
  /\ nextRun = MaxRuns + 1
  /\ thrown = <<>>

\* cli.ts:79-93: the options of the fix-packet command; runId 0 and severity
\* "none" stand for an option that is not given
PacketInit ==
  /\ lhr = NoLhr
  /\ lhIssues = <<>>
  /\ findings = <<>>
  /\ fps = <<>>
  /\ pkOptions \in [runId : 0..MaxRuns, severity : {"none"} \cup Severities,
                     target : {"javari"}]
  /\ audit_fix_packets = <<>>
  /\ site = NoSite
  /\ invoked = {}
  /\ audit = NoAudit
  /\ apc = "ready"
  /\ CfgIdle

\* part_003:1063-1075: the latest complete run, 0 when there is none
LatestComplete ==
  IF \E r \in 1..MaxRuns : audit_runs[r].status = "complete"
  THEN CHOOSE r \in 1..MaxRuns :
         /\ audit_runs[r].status = "complete"
         /\ \A q \in 1..MaxRuns : audit_runs[q].status = "complete" => q <= r
  ELSE 0

\* part_003:1298-1313 saveFixPacket: the row of audit_fix_packets
PacketRow(packet, markdown) ==
  [ run_id |-> packet.runId,
    target_ai |-> packet.targetAI,
    packet_json |-> packet,
    packet_markdown |-> markdown,
    issues_count |-> Len(packet.issues),
    status |-> "pending" ]

\* part_003:1057-1153 generateFixPacket; the command is given twice with the
\* same options
GenerateFixPacket ==
  /\ apc \in {"ready", "again"}
  /\ apc' = IF apc = "ready" THEN "again" ELSE "done"
  /\ LET targetAI == pkOptions.target
         runId == IF pkOptions.runId # 0 THEN pkOptions.runId ELSE LatestComplete
         found == FetchIssues(audit_issues, runId, pkOptions.severity)
         packet == BuildPacket(runId, targetAI, found, now)
         markdown == generateMarkdown(packet)
     IN \/ \* 1071-1074: no completed run
           /\ runId = 0
           /\ UNCHANGED audit_fix_packets
        \/ \* 1098-1101: the query failed
           /\ runId # 0
           /\ UNCHANGED audit_fix_packets
        \/ \* 1103-1106: no open issues
           /\ runId # 0
           /\ found = <<>>
           /\ UNCHANGED audit_fix_packets
        \/ \* 1110-1140: the packet is built, rendered and saved
           /\ runId # 0
           /\ found # <<>>
           /\ audit_fix_packets' = Append(audit_fix_packets, PacketRow(packet, markdown))
        \/ \* 1310-1312: the insert failed; the files are written all the same
           /\ runId # 0
           /\ found # <<>>
           /\ UNCHANGED audit_fix_packets
  /\ UNCHANGED <<lhr, lhIssues, findings, fps, pkOptions, site, invoked, audit>>
  /\ UNCHANGED <<crawlVars, runVars, verifyVars, gngVars, cfgVars>>

\* nothing of the other commands has happened
AuxIdle ==
  /\ lhr = NoLhr
  /\ lhIssues = <<>>
  /\ findings = <<>>
  /\ fps = <<>>
  /\ pkOptions = NoOptions
  /\ audit_fix_packets = <<>>
  /\ site = NoSite
  /\ invoked = {}
  /\ audit = NoAudit
  /\ apc = "idle"
  /\ CfgIdle

\* --------------------------------------------------------------- getDomains
\* the decimal numerals of the option strings, "0" first
Numerals == <<"0", "1", "2", "3", "4", "5", "6", "7", "8", "9">>

\* cli.ts:170, 173: parseInt(text, 10) of a one-digit numeral
parseInt(text) == (CHOOSE i \in 1..Len(Numerals) : Numerals[i] = text) - 1

\* cli.ts:39-40: what an override option can hold; "" stands for an option
\* that is not given (undefined is falsy like the empty string)
OverrideTexts(max) == {""} \cup { Numerals[n + 1] : n \in 0..max }

\* the host of the first built-in default domain (cli.ts:182)
DefaultHost == <<"craudiovizai.com">>

\* run.ts:23, part_003:5-16: the AuditOptions of a call
AuditOptionSets ==
  [ scope : {"full", "domain"},
    domain : { <<>>, SiteHost, DefaultHost },
    crawlBudgetPages : OverrideTexts(MaxBudgetPages),
    crawlBudgetDepth : OverrideTexts(BudgetDepth) ]

\* a row of audit_domains (0001_init.sql:11-17)
DomainRow(id, enabled, pages) ==
  [ id |-> id, domain |-> DomainHost(id), enabled |-> enabled,
    crawl_budget_pages |-> pages, crawl_budget_depth |-> BudgetDepth ]

\* the table audit_domains: empty, or with rows for d1 and d2
DomainTables ==
  { <<>> } \cup { << DomainRow("d1", e1, p), DomainRow("d2", e2, MaxBudgetPages) >> :
                   e1 \in BOOLEAN, e2 \in BOOLEAN, p \in 1..MaxBudgetPages }

\* cli.ts:179-206
DefaultDomains ==
  << [ id |-> "default-1", domain |-> DefaultHost, enabled |-> TRUE,
       crawl_budget_pages |-> DefaultBudgetPages,
       crawl_budget_depth |-> DefaultBudgetDepth ],
     [ id |-> "default-2", domain |-> <<"javariverse.com">>, enabled |-> TRUE,
       crawl_budget_pages |-> DefaultBudgetPages,
       crawl_budget_depth |-> DefaultBudgetDepth ] >>

\* cli.ts:178-218 getDefaultDomains (the tier filter is not modelled)
getDefaultDomains(o) ==
  LET named(d) == d.domain = o.domain
  IN IF o.scope = "domain" /\ o.domain # <<>> THEN SelectSeq(DefaultDomains, named)
     ELSE DefaultDomains

\* cli.ts:128-153: the rows the query returns
QueryDomains(rows, o) ==
  LET wanted(d) == d.enabled /\ (o.scope = "domain" => d.domain = o.domain)
  IN SelectSeq(rows, wanted)

\* cli.ts:161-175: the defaults when the query returned nothing, else the
\* rows with the overrides of the options
ApplyOverrides(data, o) ==
  IF data = <<>> THEN getDefaultDomains(o)
  ELSE [ i \in 1..Len(data) |->
         [ data[i] EXCEPT
             !.crawl_budget_pages = IF o.crawlBudgetPages # ""
                                    THEN parseInt(o.crawlBudgetPages) ELSE @,
             !.crawl_budget_depth = IF o.crawlBudgetDepth # ""
                                    THEN parseInt(o.crawlBudgetDepth) ELSE @ ] ]

DomainsInit ==
  /\ lhr = NoLhr
  /\ lhIssues = <<>>
  /\ findings = <<>>
  /\ fps = <<>>
  /\ pkOptions = NoOptions
  /\ audit_fix_packets = <<>>
  /\ site = NoSite
  /\ invoked = {}
  /\ audit = NoAudit
  /\ apc = "ready"
  /\ auditOptions \in AuditOptionSets
  /\ domainRows \in DomainTables
  /\ selectedDomains = <<>>

\* cli.ts:127-176 getDomains, called at run.ts:53
GetDomainList ==
  /\ apc = "ready"
  /\ \/ \* cli.ts:136-138: scope domain without a domain
        /\ auditOptions.scope = "domain"
        /\ auditOptions.domain = <<>>
        /\ apc' = "threw"
        /\ UNCHANGED selectedDomains
     \/ \* cli.ts:157-159: the query returned an error
        /\ ~(auditOptions.scope = "domain" /\ auditOptions.domain = <<>>)
        /\ apc' = "threw"
        /\ UNCHANGED selectedDomains
     \/ /\ ~(auditOptions.scope = "domain" /\ auditOptions.domain = <<>>)
        /\ selectedDomains' = ApplyOverrides(QueryDomains(domainRows, auditOptions),
                                             auditOptions)
        /\ apc' = "done"
  /\ UNCHANGED <<auditOptions, domainRows>>
  /\ UNCHANGED <<lhr, lhIssues, findings, fps, pkOptions, audit_fix_packets,
                 site, invoked, audit>>
  /\ UNCHANGED <<crawlVars, runVars, verifyVars, gngVars>>

\* ---------------------------------------------------------- specifications
CrawlIdle ==
  /\ domain \in { d \in DomainConfigs : d.crawl_budget_pages = 1 }
  /\ queue = <<>>
  /\ visited = {}
  /\ pagesCrawled = 0
  /\ brokenLinks = <<>>
  /\ consoleErrors = <<>>
  /\ issues = <<>>
  /\ cpc = "done"
  /\ cur = <<>>
  /\ now = 0
  /\ fetchLog = <<>>
  /\ browser = "null"
  /\ context = "none"
  /\ page = "none"

Init == CrawlInit /\ RunInit /\ VerifyIdle /\ GngIdle /\ AuxIdle

Next ==
  \/ Launch
  \/ LaunchThrow
  \/ SkipVisited
  \/ StartFetch
  \/ FetchReturn
  \/ FetchThrow
  \/ Finish

Spec == Init /\ [][Next]_vars

\* every await of the loop settles: page.goto resolves or rejects within its
\* timeout (crawler.ts:155-158) and the timer of sleep fires (crawler.ts:238-240)
SpecLive == Init /\ [][Next]_vars /\ WF_vars(Next)

NextClock ==
  \/ Launch
  \/ LaunchThrow
  \/ SkipVisited
  \/ StartFetch
  \/ FetchReturn
  \/ FetchThrow
  \/ Finish
  \/ Tick

SpecClock == Init /\ [][NextClock]_vars

InitRun == CrawlIdle /\ RunInit /\ VerifyIdle /\ GngIdle /\ AuxIdle

NextRun ==
  \/ StartRun
  \/ GetDomains
  \/ GetDomainsThrow
  \/ AuditDomainReturn
  \/ AuditDomainThrow
  \/ CompleteRun
  \/ saveIssues

SpecRun == InitRun /\ [][NextRun]_vars

InitVerify == CrawlIdle /\ StoreInit /\ VerifyInit /\ GngIdle /\ AuxIdle

NextVerify ==
  \/ VerifySelect
  \/ VerifyDomainMissing
  \/ VerifyDomainChecks
  \/ VerifyIssue
  \/ VerifyNextDomain
  \/ VerifySummary

SpecVerify == InitVerify /\ [][NextVerify]_vars

\* verifyFixes with other clients of the store writing between its awaits
NextVerifyShared ==
  \/ VerifySelect
  \/ VerifyDomainMissing
  \/ VerifyDomainChecks
  \/ VerifyIssue
  \/ VerifyNextDomain
  \/ VerifySummary
  \/ StoreWrite

SpecVerifyShared == InitVerify /\ [][NextVerifyShared]_vars

InitGoNoGo == CrawlIdle /\ RunInit /\ VerifyIdle /\ GngInit /\ AuxIdle

NextGoNoGo == ApplyGoNoGo

SpecGoNoGo == InitGoNoGo /\ [][NextGoNoGo]_vars

InitLighthouse == CrawlIdle /\ RunInit /\ VerifyIdle /\ GngIdle /\ LhInit

NextLighthouse == RunLighthouse

SpecLighthouse == InitLighthouse /\ [][NextLighthouse]_vars

InitFingerprint == CrawlIdle /\ RunInit /\ VerifyIdle /\ GngIdle /\ FpInit

NextFingerprint == BuildFindings

SpecFingerprint == InitFingerprint /\ [][NextFingerprint]_vars

InitAudit == CrawlInit /\ RunInit /\ VerifyIdle /\ GngIdle /\ AuditInit

NextAudit ==
  \/ Launch
  \/ LaunchThrow
  \/ SkipVisited
  \/ StartFetch
  \/ FetchReturn
  \/ FetchThrow
  \/ Finish
  \/ AuditModules

SpecAudit == InitAudit /\ [][NextAudit]_vars

InitPacket == CrawlIdle /\ PacketStoreInit /\ VerifyIdle /\ GngIdle /\ PacketInit

NextPacket == GenerateFixPacket

SpecPacket == InitPacket /\ [][NextPacket]_vars

InitDomains == CrawlIdle /\ RunInit /\ VerifyIdle /\ GngIdle /\ DomainsInit

NextDomains == GetDomainList

SpecDomains == InitDomains /\ [][NextDomains]_vars

\* ----------------------------------------------------- notions of the claims
\* ascending order of the query parameters
ParamRank(p) == IF p = "a=1" THEN 1 ELSE 2

RECURSIVE Insert(_, _)
Insert(p, q) ==
  IF q = <<>> THEN <<p>>
  ELSE IF ParamRank(p) <= ParamRank(Head(q)) THEN <<p>> \o q
       ELSE <<Head(q)>> \o Insert(p, Tail(q))

RECURSIVE SortQuery(_)
SortQuery(q) == IF q = <<>> THEN <<>> ELSE Insert(Head(q), SortQuery(Tail(q)))

\* scheme + host + path + sorted query, fragment stripped
Normalize(u) ==
  Url(u.host, IF u.path = "" THEN "/" ELSE u.path, SortQuery(u.query), "")

Page(h) == Normalize(UrlOf(h))

Origin(u) == <<"https://", u.host>>

Started == { fetchLog[i].url : i \in 1..Len(fetchLog) }

Failed(i) == fetchLog[i].outcome \in {"threw", "status"}

\* the link graph the crawl has seen, over normalized pages
Edges ==
  UNION { { <<Page(fetchLog[i].url), Page(fetchLog[i].links[k])>> :
              k \in 1..Len(fetchLog[i].links) } : i \in 1..Len(fetchLog) }

RECURSIVE Within(_)
Within(k) ==
  IF k = 0 THEN { Page(BaseUrl(domain)) }
  ELSE Within(k - 1) \cup { e[2] : e \in { f \in Edges : f[1] \in Within(k - 1) } }

\* link distance of a page from the root page
Dist(n) ==
  CHOOSE k \in 0..Cardinality(AllUrls) :
    n \in Within(k) /\ (k = 0 \/ n \notin Within(k - 1))

\* the issues that describe a failed fetch of url
FailureIssues(url) ==
  { k \in 1..Len(issues) :
      /\ issues[k].route_or_endpoint = url
      /\ issues[k].category = "LINKS"
      /\ issues[k].title \in { <<"Page failed to load: ", url>>,
                               <<"Broken link detected">> } }

\* ----------------------------------------------------------------- claims
\* C1: a crawl starts a fetch for at most crawl_budget_pages distinct
\* (normalized) URLs, failed fetches included.
C1_FetchStartsWithinBudget ==
  Cardinality({ Page(h) : h \in Started }) <= domain.crawl_budget_pages

\* C6: no two fetches of one crawl are of URLs with the same normalization.
C6_OneFetchPerNormalizedUrl ==
  \A i, j \in 1..Len(fetchLog) :
    Page(fetchLog[i].url) = Page(fetchLog[j].url) => i = j

\* C7: every URL in the frontier or fetched has the origin of the root URL.
C7_SameOriginOnly ==
  \A h \in Started \cup { queue[i] : i \in 1..Len(queue) } :
    Origin(UrlOf(h)) = Origin(RootUrl(domain))

\* C2: the store holds at most one row per fingerprint; a fingerprint seen by
\* two runs has one row with occurrence_count 2 and last_seen the second run.
C2_OneRowPerFingerprint ==
  \A i, j \in 1..Len(audit_issues) :
    audit_issues[i].fingerprint = audit_issues[j].fingerprint => i = j

\* the issues a verification handled, with the row each is stored in
StillExists(e) ==
  \E k \in 1..Len(e.fresh) : e.fresh[k].fingerprint = audit_issues[e.id].fingerprint

C4_GoNoGoTable ==
  verdict # "none" =>
    /\ verdict = "RED" <=> counts.BLOCKER > 0
    /\ verdict = "YELLOW" <=> (counts.BLOCKER = 0 /\ counts.HIGH > 10)
    /\ verdict = "GREEN" <=> (counts.BLOCKER = 0 /\ counts.HIGH <= 10)
    /\ \A m \in 0..MaxMedium, l \in 0..MaxLow :
         determineGoNoGo([counts EXCEPT !.MEDIUM = m, !.LOW = l]) = verdict

\* C4 witness: ten HIGH issues and no blocker are GREEN.
C4_Witness ==
  /\ verdict = "GREEN"
  /\ counts.BLOCKER = 0
  /\ counts.HIGH = 10
  /\ counts.MEDIUM > 0

CountOf(list, sev) == Cardinality({ k \in 1..Len(list) : list[k].severity = sev })

SummaryTotal(summary) ==
  summary.BLOCKER + summary.HIGH + summary.MEDIUM + summary.LOW

RowsOfRun(r) == { i \in 1..Len(audit_issues) : audit_issues[i].run_id = r }

C8_FailureYieldsOneIssueAndCrawlGoesOn ==
  /\ \A i \in 1..Len(fetchLog) :
        /\ fetchLog[i].outcome = "threw"
             => Cardinality(FailureIssues(fetchLog[i].url)) = 1
        /\ (cpc = "done" /\ Failed(i))
             => Cardinality(FailureIssues(fetchLog[i].url)) = 1
  /\ cpc = "done" => ~LoopCond

\* C8 witness: a finished crawl in which a fetch threw, a later one was
\* answered with an error status, and a fetch after both was still started.
C8_Witness ==
  /\ cpc = "done"
  /\ \E i, j, k \in 1..Len(fetchLog) :
        /\ i < j /\ j < k
        /\ fetchLog[i].outcome = "threw"
        /\ fetchLog[j].outcome = "status"
        /\ fetchLog[k].outcome = "ok"

\* C9: no fetched page is further from the root than crawl_budget_depth links.
C9_FetchWithinDepth ==
  \A h \in Started : Dist(Page(h)) <= domain.crawl_budget_depth

\* C10: no fetch is started after max_runtime_minutes have elapsed.
C10_NoFetchAfterDeadline ==
  \A i \in 1..Len(fetchLog) : fetchLog[i].at <= domain.max_runtime_minutes

\* C11: any two consecutive fetch starts of a crawl are separated by a pacing
\* delay of at least 1000/requests_per_second milliseconds, whether the
\* earlier fetch succeeded or failed.
C11_PacedFetchStarts ==
  \A i \in 1..(Len(fetchLog) - 1) : fetchLog[i].pause >= PacingDelay(domain)

\* C20: once crawlDomain has returned or thrown, the browser, the context
\* and the pages it opened are closed.
C20_ResourcesReleased ==
  cpc \in {"done", "threw"} =>
    /\ browser # "open"
    /\ context # "open"
    /\ page # "open"

\* the categories for which verifyFixes runs a check again (verify.ts:82-98)
Rechecked(category) == category \in {"SEO", "SECURITY", "PERF", "A11Y"}

\* the fresh results hold the finding of a check that could not be completed
CheckFailed(fresh, category) ==
  \E k \in 1..Len(fresh) :
    /\ fresh[k].category = category
    /\ fresh[k].title \in {<<"SEO check failed">>, <<"Security headers check failed">>}

\* C12: an issue is set to verified only if a check of its category was run
\* again in this verification and completed without a finding of the
\* issue's fingerprint.
C12_VerifiedOnlyAfterCompletedCheck ==
  \A n \in 1..Len(vLog) :
    LET e == vLog[n]
        row == audit_issues[e.id]
    IN row.status = "verified" =>
         /\ Rechecked(row.category)
         /\ ~CheckFailed(e.fresh, row.category)
         /\ ~StillExists(e)

\* C13: when a verification has ended, every finding it produced has its
\* fingerprint among the stored issues.
C13_FreshFindingsStored ==
  vpc = "done" =>
    \A n \in 1..Len(vLog) : \A k \in 1..Len(vLog[n].fresh) :
      \E i \in 1..Len(audit_issues) :
        audit_issues[i].fingerprint = vLog[n].fresh[k].fingerprint

\* a fingerprint with an active suppression that has not expired
Suppressed(fp) ==
  \E sup \in audit_suppressions :
    sup.fingerprint = fp /\ sup.is_active /\ ~sup.expired

UnsuppressedCount(list, sev) ==
  Cardinality({ k \in 1..Len(list) :
                  list[k].severity = sev /\ ~Suppressed(list[k].fingerprint) })

\* C14: an issue whose fingerprint has an active suppression is not counted
\* in the summary of a complete run, hence not in its verdict, and is in no
\* run's fix packet.
C14_SuppressedIssuesExcluded ==
  /\ run.status = "complete" =>
        /\ \A sev \in Severities :
             run.summary[sev] = UnsuppressedCount(allIssues, sev)
        /\ run.go_no_go =
             determineGoNoGo([sev \in Severities |-> UnsuppressedCount(allIssues, sev)])
  /\ \A r \in 1..MaxRuns : \A row \in FixPacketIssues(r) : ~Suppressed(row.fingerprint)

\* BLOCKER > HIGH > MEDIUM > LOW
SeverityRank(sev) ==
  CASE sev = "BLOCKER" -> 4 [] sev = "HIGH" -> 3 [] sev = "MEDIUM" -> 2 [] OTHER -> 1

\* C15: the severity stored for a fingerprint is never lowered by a run: a
\* row stored after an open or fixing row of the same fingerprint is never
\* of a lower severity.
C15_SeverityNeverLowered ==
  \A i, j \in 1..Len(audit_issues) :
    ( /\ i < j
      /\ audit_issues[i].fingerprint = audit_issues[j].fingerprint
      /\ audit_issues[i].status \in {"open", "fixing"} )
    => SeverityRank(audit_issues[j].severity) >= SeverityRank(audit_issues[i].severity)

\* the domains that have a recorded result, in the order of the loop
ResultDomains == [k \in 1..Len(results) |-> results[k][1]]

\* C16: when a module throws while a domain is audited, the run holds a
\* finding for that domain that records the failure, and the findings of the
\* modules that had succeeded are kept in the run.
C16_ModuleFailureIsAFinding ==
  \A n \in 1..Len(thrown) :
    /\ \E k \in 1..Len(allIssues) : allIssues[k].domain_id = thrown[n].domain
    /\ \A c \in 1..Len(thrown[n].collected) :
         \E k \in 1..Len(allIssues) : allIssues[k] = thrown[n].collected[c]

\* C17: a failure while one domain is audited is not fatal: the loop goes on
\* with every remaining domain, and the call ends with every domain having a
\* result, the run complete and a verdict.
C17_DomainFailureNotFatal ==
  /\ rpc = "domains" => ResultDomains \o todo = Domains
  /\ (rpc \in {"saveIssues", "idle"} /\ \E k \in 1..Len(results) : results[k][2] = "failed")
       => /\ ResultDomains = Domains
          /\ run.status = "complete"
          /\ run.go_no_go \in {"GREEN", "YELLOW", "RED"}

\* C17 witness: a call that ended after d1 failed and d2 was audited, its
\* issues stored.
C17_Witness ==
  /\ rpc = "idle"
  /\ results = << <<"d1", "failed">>, <<"d2", "complete">> >>
  /\ run.status = "complete"
  /\ run.go_no_go = "RED"
  /\ saved = "ok"

\* C18: no stored run is in status running once the runAudit call that
\* created it has ended.
C18_NoRunLeftRunning ==
  rpc = "idle" => \A r \in 1..MaxRuns : audit_runs[r].status # "running"

\* C19: a run is complete only when every domain has a recorded result, and
\* a complete run, in memory or stored, is not changed again.
C19_CompleteIsFinal ==
  /\ [](run.status = "complete" => ResultDomains = Domains)
  /\ [][(run.status = "complete" /\ run'.run_id = run.run_id) => run' = run]_vars
  /\ [][\A r \in 1..MaxRuns :
          audit_runs[r].status = "complete" => audit_runs'[r] = audit_runs[r]]_vars

\* C19 witness: a complete run, stored as complete, whose call has gone on
\* to save the issues of both domains.
C19_Witness ==
  /\ run.status = "complete"
  /\ audit_runs[run.run_id] = run
  /\ ResultDomains = Domains
  /\ rpc = "idle"
  /\ saved = "ok"

\* C29: for a score s of a checked metric with thresholds (b, h, m) an issue
\* is created if and only if s < m; it is BLOCKER when s < b, HIGH when
\* b <= s < h, MEDIUM when h <= s < m, whatever the other scores and audits
\* are; and a lower score never yields a milder severity (the score one
\* below is never milder).
C29_LighthouseSeverityTable ==
  /\ (apc = "done" /\ lhr.ok) =>
       \A m \in { CheckedMetrics[i] : i \in 1..Len(CheckedMetrics) } :
         LET s == lhr.scores[m]
             t == THRESHOLDS[m]
             made == { k \in 1..Len(lhIssues) :
                         lhIssues[k].fingerprint = <<"d1", MetricCategory(m), m>> }
         IN /\ made # {} <=> s < t.MEDIUM
            /\ Cardinality(made) <= 1
            /\ \A k \in made :
                 lhIssues[k].severity =
                   IF s < t.BLOCKER THEN "BLOCKER"
                   ELSE IF s < t.HIGH THEN "HIGH" ELSE "MEDIUM"
  /\ \A m \in { CheckedMetrics[i] : i \in 1..Len(CheckedMetrics) } :
       lhr.scores[m] > 0 =>
         SeverityRank(lighthouseSeverity(m, lhr.scores[m] - 1))
           >= SeverityRank(lighthouseSeverity(m, lhr.scores[m]))

\* a result whose performance score sits on the HIGH threshold has been
\* turned into a MEDIUM issue
C29_Witness ==
  /\ apc = "done"
  /\ lhr.ok
  /\ lhr.scores["performance"] = THRESHOLDS["performance"].HIGH
  /\ \E k \in 1..Len(lhIssues) :
       /\ lhIssues[k].fingerprint = <<"d1", "PERF", "performance">>
       /\ lhIssues[k].severity = "MEDIUM"

\* the four inputs of a finding's fingerprint
FingerprintInputs(f) == <<f.domainId, f.category, f.rule, f.route>>

\* C21: two findings have equal fingerprints if and only if they agree on
\* domain, category, rule identity and route.
C21_FingerprintIffSameInputs ==
  apc = "done" =>
    ((fps[1] = fps[2])
       <=> (FingerprintInputs(findings[1]) = FingerprintInputs(findings[2])))

\* the issues of the audit with this fingerprint and severity
AuditIssuesWith(fp, sev) ==
  { k \in 1..Len(audit.issues) :
      audit.issues[k].fingerprint = fp /\ audit.issues[k].severity = sev }

\* C22: a run over one domain with page budget 1 whose root page loads and
\* has exactly two defects, no title and no HSTS header, yields exactly two
\* issues (SEO title BLOCKER, security HSTS HIGH), the summary
\* {BLOCKER 1, HIGH 1, MEDIUM 0, LOW 0} and the verdict RED.
C22_TwoDefectsTwoIssues ==
  ( /\ apc = "done"
    /\ domain.crawl_budget_pages = 1
    /\ Len(fetchLog) = 1
    /\ fetchLog[1].outcome = "ok"
    /\ issues = <<>>
    /\ site = [title |-> "none", missing |-> {"strict-transport-security"}] )
  => /\ Len(audit.issues) = 2
     /\ AuditIssuesWith(<<domain.id, "SEO", "title">>, "BLOCKER") # {}
     /\ AuditIssuesWith(<<domain.id, "security", "strict-transport-security">>, "HIGH") # {}
     /\ audit.summary = [BLOCKER |-> 1, HIGH |-> 1, MEDIUM |-> 0, LOW |-> 0]
     /\ audit.go_no_go = "RED"

\* C26: every module selected for the run has been invoked on every page
\* the crawl fetched successfully.
C26_ModulesOnEveryFetchedPage ==
  apc = "done" =>
    \A i \in 1..Len(fetchLog) :
      fetchLog[i].outcome = "ok" =>
        \A m \in 1..Len(ModulesAfterCrawl) :
          <<ModulesAfterCrawl[m], fetchLog[i].url>> \in invoked

\* the link graph the crawl has seen, over the urls as the code compares them
HrefEdges ==
  UNION { { <<fetchLog[i].url, fetchLog[i].links[k]>> :
              k \in 1..Len(fetchLog[i].links) } : i \in 1..Len(fetchLog) }

RECURSIVE HrefWithin(_)
HrefWithin(k) ==
  IF k = 0 THEN { BaseUrl(domain) }
  ELSE LET w == HrefWithin(k - 1)
       IN w \cup { e[2] : e \in { f \in HrefEdges : f[1] \in w } }

\* link distance of a url from the root url
HrefDist(h) ==
  CHOOSE k \in 0..Cardinality(AllUrls) :
    h \in HrefWithin(k) /\ (k = 0 \/ h \notin HrefWithin(k - 1))

\* the urls in the order they were put on the frontier: the root, then the
\* admitted links of each fetch of the log that returned
RECURSIVE Enqueued(_, _)
Enqueued(log, n) ==
  IF n = 0 THEN << BaseUrl(domain) >>
  ELSE Enqueued(log, n - 1)
       \o Admitted(log[n].links, { log[j].url : j \in 1..n }, BaseUrl(domain))

\* a sequence without the later occurrences of its elements
RECURSIVE FirstOccurrences(_, _)
FirstOccurrences(s, seen) ==
  IF s = <<>> THEN <<>>
  ELSE IF Head(s) \in seen THEN FirstOccurrences(Tail(s), seen)
       ELSE << Head(s) >> \o FirstOccurrences(Tail(s), seen \cup { Head(s) })

\* the urls within 0, 1, ..., n links of the set w, over the edges E
RECURSIVE HrefLevels(_, _, _)
HrefLevels(w, E, n) ==
  IF n = 0 THEN << w >>
  ELSE << w >> \o HrefLevels(w \cup { e[2] : e \in { f \in E : f[1] \in w } }, E, n - 1)

\* the link distance from the root of each url of the log, over the links of
\* the log
FetchDistances(log) ==
  LET n == Len(log)
      E == UNION { { << log[i].url, log[i].links[k] >> : k \in 1..Len(log[i].links) } :
                   i \in 1..n }
      level == HrefLevels({ BaseUrl(domain) }, E, n)
  IN [ i \in 1..n |->
       CHOOSE k \in 0..n :
         log[i].url \in level[k + 1] /\ (k = 0 \/ log[i].url \notin level[k]) ]

\* the urls of the log are fetched in the order they were first enqueued
FetchedInEnqueueOrder(log) ==
  LET n == Len(log)
      order == FirstOccurrences(Enqueued(log, n), {})
  IN /\ Len(order) >= n
     /\ \A i \in 1..n : log[i].url = order[i]

\* no url of the log is fetched before one at a smaller link distance
DistancesAscend(log) ==
  LET dist == FetchDistances(log)
  IN \A i \in 1..(Len(log) - 1) : dist[i] <= dist[i + 1]

\* C27: the urls are fetched in the order they were first enqueued, and no
\* url at a greater link distance from the root is fetched before a fetched
\* url at a smaller one.  The order is stated whenever a fetch starts, the
\* distances whenever a fetch starts or ends (its links are then known); the
\* distances are stated of each fetch and the next one, the order being
\* transitive.
C27_BreadthFirstOrder ==
  [][ /\ Len(fetchLog') > Len(fetchLog) => FetchedInEnqueueOrder(fetchLog')
      /\ fetchLog' # fetchLog => DistancesAscend(fetchLog') ]_vars

\* urls at distance 0, 1, 1 and 2 have been fetched, in that order
C27_Witness ==
  /\ Len(fetchLog) >= 4
  /\ HrefDist(fetchLog[2].url) = 1
  /\ HrefDist(fetchLog[3].url) = 1
  /\ HrefDist(fetchLog[4].url) = 2

\* C28: whatever the link graph and the outcomes of the fetches, the crawl
\* loop, once entered, ends: crawlDomain returns its issues (it does not
\* throw), and at that point the frontier is empty or the page budget is
\* reached.
C28_CrawlLoopTerminates ==
  /\ (cpc = "loop") ~> (cpc = "done")
  /\ [](cpc = "threw" => fetchLog = <<>>)
  /\ [](cpc = "done" => ~LoopCond)
  /\ [][cpc = "done" => cpc' = "done" /\ issues' = issues]_vars

\* the loop has ended after a failed fetch with the budget not reached, and
\* the issue of the failure is among those returned
C28_Witness ==
  /\ cpc = "done"
  /\ queue = <<>>
  /\ pagesCrawled < domain.crawl_budget_pages
  /\ \E i \in 1..Len(fetchLog) : fetchLog[i].outcome = "threw"
  /\ Len(issues) > 0

\* C30: verifyFixes changes only rows it selected (of the run, in status
\* fixing, with the id when one is given); of such a row it writes only
\* status, to open or verified, and verified_at; no row is added or removed.
C30_VerifyWritesOnlySelected ==
  [][ /\ Len(audit_issues') = Len(audit_issues)
      /\ \A i \in 1..Len(audit_issues) :
           audit_issues'[i] # audit_issues[i] =>
             /\ audit_issues[i].run_id = vopts.runId
             /\ audit_issues[i].status = "fixing"
             /\ vopts.issueId # 0 => audit_issues[i].id = vopts.issueId
             /\ audit_issues'[i].status \in {"open", "verified"}
             /\ audit_issues'[i] =
                  [audit_issues[i] EXCEPT !.status = audit_issues'[i].status,
                                          !.verified_at = audit_issues'[i].verified_at]
    ]_vars

\* a call with an issue id has settled that issue and left another fixing
\* issue of the same run as it was
C30_Witness ==
  /\ vpc = "done"
  /\ vopts.issueId # 0
  /\ Len(vLog) > 0
  /\ audit_issues[vopts.issueId].status \in {"open", "verified"}
  /\ \E j \in 1..Len(audit_issues) :
       /\ j # vopts.issueId
       /\ audit_issues[j].run_id = vopts.runId
       /\ audit_issues[j].status = "fixing"

\* C25: an error result of saveRun or saveIssues does not abort the run:
\* each step of runAudit is followed by the next one whether or not its
\* write succeeded, the call ends normally, and the in-memory run (summary
\* and verdict) is what it would be without the failure.
C25_StoreFailureNotFatal ==
  /\ [][ (rpc = "idle" /\ rpc' # "idle") =>
           (rpc' = "created" /\ run'.status = "running") ]_vars
  /\ [][ (rpc = "domains" /\ todo = <<>> /\ rpc' # "domains") =>
           /\ rpc' = "saveIssues"
           /\ run' = [run EXCEPT !.status = "complete",
                                 !.go_no_go = determineGoNoGo(run.summary)] ]_vars
  /\ [][ rpc = "saveIssues" => (rpc' = "idle" /\ run' = run) ]_vars
  /\ []( saved = "error" =>
           /\ run.status = "complete"
           /\ run.summary = Tally(ZeroSummary, allIssues)
           /\ run.go_no_go = determineGoNoGo(run.summary) )

\* a run has ended after both the save of the completed run and the insert
\* of its issues failed
C25_Witness ==
  /\ rpc = "idle"
  /\ saved = "error"
  /\ run.status = "complete"
  /\ audit_runs[run.run_id].status # "complete"
  /\ Len(allIssues) > 0

\* the ids of the issues of run r that are open and of severity sev or
\* worse, BLOCKER > HIGH > MEDIUM > LOW (all open ones when sev is "none")
OpenAtLeast(r, sev) ==
  { audit_issues[i].id : i \in { j \in 1..Len(audit_issues) :
      /\ audit_issues[j].run_id = r
      /\ audit_issues[j].status = "open"
      /\ sev # "none" => SeverityRank(audit_issues[j].severity) >= SeverityRank(sev) } }

\* C23: a fix packet generated for run R with minimum severity S holds
\* exactly the issues of R that are open and of severity S or worse, each
\* once; with no S, exactly the open issues of R.  R is the run asked for, or
\* the latest complete run when none is.
C23_PacketHoldsOpenIssuesOfRun ==
  \A p \in 1..Len(audit_fix_packets) :
    LET packet == audit_fix_packets[p].packet_json
    IN /\ pkOptions.runId # 0 => packet.runId = pkOptions.runId
       /\ pkOptions.runId = 0 => packet.runId = LatestComplete
       /\ { packet.issues[k].id : k \in 1..Len(packet.issues) }
            = OpenAtLeast(packet.runId, pkOptions.severity)
       /\ Len(packet.issues) = Cardinality(OpenAtLeast(packet.runId, pkOptions.severity))

\* a packet for run 1 with minimum severity MEDIUM holds the two HIGH issues
\* and the MEDIUM issue while the LOW issue of the run is open too
C23_Witness ==
  /\ Len(audit_fix_packets) > 0
  /\ pkOptions.severity = "MEDIUM"
  /\ audit_fix_packets[1].run_id = 1
  /\ audit_fix_packets[1].issues_count = 3
  /\ \A i \in 1..Len(audit_issues) :
       audit_issues[i].run_id = 1 => audit_issues[i].status = "open"

C31_WriteOnlyWhileFixing ==
  [][ vLog' # vLog =>
        \A i \in 1..Len(audit_issues) :
          audit_issues'[i] # audit_issues[i] => audit_issues[i].status = "fixing" ]_vars

\* C32: whenever the store shows a run with status complete, the issues of
\* that run are in the store (here for the run of the call, whose issues
\* are allIssues).
C32_CompleteRunHasItsIssues ==
  \A r \in 1..MaxRuns :
    (audit_runs[r].status = "complete" /\ run.run_id = r)
      => Cardinality(RowsOfRun(r)) = Len(allIssues)

\* the budget fields a domain is configured with: those of its row, or of
\* the built-in default
ConfiguredDomain(id) ==
  LET all == domainRows \o DefaultDomains
  IN all[CHOOSE i \in 1..Len(all) : all[i].id = id]

\* C33: every domain getDomains returns carries the override of the options
\* as its budget when one is given, and its own configured budget when none
\* is, for pages and for depth, whether it is a stored or a default domain.
C33_OverrideAppliesToEveryDomain ==
  apc = "done" =>
    \A i \in 1..Len(selectedDomains) :
      LET d == selectedDomains[i]
          own == ConfiguredDomain(d.id)
      IN /\ d.crawl_budget_pages =
              IF auditOptions.crawlBudgetPages # ""
              THEN parseInt(auditOptions.crawlBudgetPages) ELSE own.crawl_budget_pages
         /\ d.crawl_budget_depth =
              IF auditOptions.crawlBudgetDepth # ""
              THEN parseInt(auditOptions.crawlBudgetDepth) ELSE own.crawl_budget_depth

\* the rows the options of the verification select, whatever their status
MatchesOptions(i) ==
  /\ audit_issues[i].run_id = vopts.runId
  /\ (vopts.issueId # 0 => audit_issues[i].id = vopts.issueId)

\* C34: a domain whose configuration cannot be loaded is skipped: its
\* issues are never written (they stay in status fixing), they are counted
\* neither as verified nor as still present (the two counters count exactly
\* the issues the loop handled, all of loaded domains), and when the summary
\* is reached every selected issue of the other domains has been decided.
C34_MissingDomainSkipped ==
  /\ [][ \A i \in 1..Len(audit_issues) :
          audit_issues[i].domain_id \notin audit_domains
            => audit_issues'[i] = audit_issues[i] ]_vars
  /\ [](/\ verified + stillPresent = Len(vLog)
        /\ \A k \in 1..Len(vLog) :
             audit_issues[vLog[k].id].domain_id \in audit_domains)
  /\ [][ (vpc = "domains" /\ vpc' = "done") =>
          \A i \in 1..Len(audit_issues) :
            (MatchesOptions(i) /\ audit_issues[i].status = "fixing")
              => audit_issues[i].domain_id \notin audit_domains ]_vars

\* d1 was skipped with an issue left in status fixing, and the issue of d2
\* that came after it was decided
C34_Witness ==
  /\ vpc = "done"
  /\ audit_domains = {"d2"}
  /\ \E i \in 1..Len(audit_issues) :
       /\ MatchesOptions(i)
       /\ audit_issues[i].domain_id = "d1"
       /\ audit_issues[i].status = "fixing"
  /\ Len(vLog) = 1
  /\ audit_issues[vLog[1].id].domain_id = "d2"
  /\ audit_issues[vLog[1].id].status \in {"open", "verified"}
  /\ verified + stillPresent = 1

\* the lines of a document that open the section of a severity
HeadingLines(md) == { n \in 1..Len(md) : md[n][1] = "# ISSUES " }

\* the lines of a document that give the fingerprint of a listed issue
IdLines(md) == { n \in 1..Len(md) : md[n][1] = "**ID:** " }

\* the heading a line stands under, 0 when there is none before it
HeadingAbove(md, n) ==
  LET before == { h \in HeadingLines(md) : h < n }
  IN IF before = {} THEN 0
     ELSE CHOOSE h \in before : \A g \in before : g <= h

\* C35: in every stored fix packet the four severity counters of the
\* summary add up to the number of issues; the markdown has one section
\* heading for each severity with issues, the headings in the order
\* BLOCKER, HIGH, MEDIUM, LOW, each with the count of the matching summary
\* counter; and each issue of the packet is listed exactly once, under the
\* heading of its own severity.
C35_SummaryAndSectionsMatchIssues ==
  \A p \in 1..Len(audit_fix_packets) :
    LET packet == audit_fix_packets[p].packet_json
        md == audit_fix_packets[p].packet_markdown
        heads == HeadingLines(md)
        ids == IdLines(md)
    IN /\ packet.summary.BLOCKER + packet.summary.HIGH
            + packet.summary.MEDIUM + packet.summary.LOW = Len(packet.issues)
       /\ \A g, h \in heads : g < h => SeverityRank(md[g][2]) > SeverityRank(md[h][2])
       /\ \A h \in heads : md[h][3] = packet.summary[md[h][2]]
       /\ \A sev \in Severities :
            packet.summary[sev] > 0 => \E h \in heads : md[h][2] = sev
       /\ Cardinality(ids) = Len(packet.issues)
       /\ \A k \in 1..Len(packet.issues) :
            /\ Cardinality({ n \in ids : md[n][2] = packet.issues[k].fingerprint }) = 1
            /\ \A n \in ids :
                 md[n][2] = packet.issues[k].fingerprint
                   => /\ HeadingAbove(md, n) # 0
                      /\ md[HeadingAbove(md, n)][2] = packet.issues[k].severity

\* a packet is stored whose issues are, in the order of the query, two
\* HIGH ones, the LOW one and the MEDIUM one
C35_Witness ==
  /\ Len(audit_fix_packets) > 0
  /\ LET packet == audit_fix_packets[1].packet_json
     IN /\ Len(packet.issues) = 4
        /\ packet.summary.HIGH = 2
        /\ packet.issues[3].severity = "LOW"
        /\ packet.issues[4].severity = "MEDIUM"

\* the domains of the current run whose audit threw
FailedDomains == { results[k][1] : k \in { j \in 1..Len(results) : results[j][2] = "failed" } }

\* C36: a domain whose audit throws contributes nothing to the run.  The
\* step in which auditDomain throws records the domain as failed and leaves
\* the issue list, the summary and the store as they were; and no issue of
\* a failed domain is ever in the run's issue list or among its stored rows,
\* the issues of the modules that returned before the throw included.
C36_FailedDomainContributesNothing ==
  /\ [][ Len(thrown') > Len(thrown) =>
          /\ allIssues' = allIssues
          /\ run'.summary = run.summary
          /\ audit_issues' = audit_issues
          /\ results' = Append(results, <<Head(todo), "failed">>) ]_vars
  /\ [](/\ \A k \in 1..Len(allIssues) : allIssues[k].domain_id \notin FailedDomains
        /\ \A i \in RowsOfRun(run.run_id) :
             audit_issues[i].domain_id \notin FailedDomains)

\* d1 failed in its SEO check after its header check had returned an issue,
\* d2 was audited with an issue, and the run's issues are stored
C36_Witness ==
  /\ Len(results) = 2
  /\ results[1] = <<"d1", "failed">>
  /\ results[2] = <<"d2", "complete">>
  /\ Len(thrown) = 1
  /\ thrown[1].module = "seoMeta"
  /\ thrown[1].collected # <<>>
  /\ saved = "ok"
  /\ RowsOfRun(run.run_id) # {}

\* C37: for the same BLOCKER and HIGH counts the runner's determineGoNoGo
\* and the database's determine_go_no_go return the same verdict, one of
\* GREEN, YELLOW and RED.
C37_RunnerAndDatabaseAgree ==
  verdict # "none" =>
    /\ verdict = dbVerdict
    /\ dbVerdict \in {"GREEN", "YELLOW", "RED"}

\* both have returned YELLOW for eleven HIGH issues and no blocker
C37_Witness ==
  /\ counts.BLOCKER = 0
  /\ counts.HIGH = 11
  /\ verdict = "YELLOW"
  /\ dbVerdict = "YELLOW"

====
